---- MODULE Spec2Model ----
(***************************************************************************)
(* Tile generation lifecycle of the AI canvas: the tile store              *)
(* (useCanvasState), the generation coordinator (useImageGeneration) and   *)
(* the tile operations with z-index management (useImageOperations).       *)
(*                                                                         *)
(* One action is one event-loop turn: a user event handler, or the         *)
(* continuation of an awaited service call / image preload.  The component *)
(* re-renders between turns, so imagesRef.current is the tile collection   *)
(* at the start of the turn.                                               *)
(***************************************************************************)
EXTENDS Integers, Sequences, FiniteSets, TLC

VARIABLES
    images,            \* useCanvasState: images (ordered tile collection)
    selectedImageId,   \* useCanvasState: selectedImageId (NoId = null)
    currentPrompt,     \* useCanvasState: currentPrompt
    error,             \* useCanvasState: error (NoError = null)
    activeRequests,    \* useImageGeneration: activeRequestsRef (tile id -> controller)
    calls,             \* generateImageForTile invocations still awaiting a result
    expansions,        \* handleImageExpand invocations that have not returned yet
    loads,             \* loadDocument: the awaited service call and image preloads
    saves,             \* saveDocument: the awaited save / update requests
    documentState,     \* useDocumentOperations: fileMenuStatus, lastSavedDocumentId
                       \* (shareUrl is set with it), the status timer and the
                       \* clipboard writes awaited by copyShareUrl
    nextId,            \* next fresh tile id (generateId)
    nextCid,           \* next fresh AbortController identity
    debounced,         \* ImageCanvas: argument of the pending debounced call, if any
    elapsed,           \* debounce timer: time since the last edit and since the
                       \* first edit that has not been fired yet
    lastIssued         \* history: per tile, the controller of the last call issued

vars == <<images, selectedImageId, currentPrompt, error, activeRequests,
          calls, expansions, loads, saves, documentState, nextId, nextCid,
          debounced, elapsed, lastIssued>>

----------------------------------------------------------------------------
(* Bounds of the model *)

MaxTiles == 2        \* tiles ever created in a run of Spec
MaxCalls == 1        \* generation calls ever issued in a run of Spec
MaxTilesGen == 1     \* tiles ever created in a run of SpecGen
MaxCallsGen == 3     \* generation calls ever issued in a run of SpecGen
ZSlack == 2          \* stacking values explored on either side of the ceiling
PresetTiles == 3     \* tiles of a canvas that has been in use for a while
MaxNewTilesZ == 4    \* tiles created in a run of SpecZ
MaxCallsZ == 1       \* generation calls issued in a run of SpecZ
MaxTilesExpand == 6  \* tiles ever on the canvas in a run of SpecExpand
MaxCallsExpand == 4  \* generation calls ever issued in a run of SpecExpand
MaxTilesSelect == 4  \* tiles ever created in a run of SpecSelect
MaxCallsSelect == 1  \* generation calls ever issued in a run of SpecSelect
MaxStoreTiles == 3   \* tiles ever added in a run of SpecStore
MaxTilesGate == 2    \* tiles ever created in a run of SpecGate
MaxCallsGate == 2    \* generation calls ever issued in a run of SpecGate
MaxTilesGateLive == 1   \* tiles ever created in a run of SpecGateLive
MaxCallsGateLive == 1   \* generation calls ever issued in a run of SpecGateLive
MaxTilesEdit == 3       \* tiles ever created in a run of SpecEdit (two at the start)
MaxCallsEdit == 2       \* generation calls ever issued in a run of SpecEdit
MaxTilesExpandLive == 5  \* tiles ever on the canvas in a run of SpecExpandLive
MaxCallsExpandLive == 4  \* generation calls ever issued in a run of SpecExpandLive
TicksPerDelay == 2   \* steps of the clock in one debounce delay
MaxTilesRoundTrip == 2   \* tiles of a canvas that is saved in SpecRoundTrip
MaxTilesLoad == 1    \* tiles ever created in a run of SpecLoad
MaxCallsLoad == 1    \* generation calls ever issued in a run of SpecLoad
MaxTilesSave == 2    \* tiles ever created in a run of SpecSave
MaxCallsSave == 1    \* generation calls ever issued in a run of SpecSave
MaxSaves == 2        \* save requests awaited at a time in SpecSave
MaxCopies == 1       \* clipboard writes awaited at a time in SpecSave
MaxTimers == 2       \* status timers running at a time in SpecSave
MaxTilesClear == 6   \* tiles ever on the canvas in a run of SpecClear
MaxCallsClear == 4   \* generation calls ever issued in a run of SpecClear

(* Program constants *)

MAX_Z_INDEX == 999
DEBOUNCE_DELAY == 500    \* ms
MAX_WAIT == 2000         \* ms

NoId == 0
NoError == "<null>"
EmptyPromptError == "Cannot generate image with empty prompt"
ServiceError == "Failed to generate image"
VariationsError == "Failed to generate prompt variations"
LoadError == "Failed to load document"

Space == " "
Prompts == { <<Space>>, <<"a">> }
GeneratingSuffix == <<Space, "(generating variation...)">>

NoTime == [last |-> 0, first |-> 0]

NoDoc == 0
UrlDoc == 1      \* the document named by ?doc= in the address of the page

\* useDocumentOperations before any save or load.
NoDocument ==
    [fileMenuStatus |-> "idle", lastSavedDocumentId |-> NoDoc,
     savedTimeout |-> FALSE, timers |-> 0, copying |-> 0]

EmptyCanvasError == "Cannot save empty canvas"
SaveError == "Failed to save document"

----------------------------------------------------------------------------
(* Pure helpers *)

Merge(img, updates) ==
    [k \in DOMAIN img |-> IF k \in DOMAIN updates THEN updates[k] ELSE img[k]]

Remove(f, k) == [j \in DOMAIN f \ {k} |-> f[j]]

Put(f, k, v) == [j \in DOMAIN f \cup {k} |-> IF j = k THEN v ELSE f[j]]

RECURSIVE TrimStart(_)
TrimStart(s) ==
    IF s # <<>> /\ Head(s) = Space THEN TrimStart(Tail(s)) ELSE s

RECURSIVE TrimEnd(_)
TrimEnd(s) ==
    IF s # <<>> /\ s[Len(s)] = Space THEN TrimEnd(SubSeq(s, 1, Len(s) - 1)) ELSE s

Trim(s) == TrimEnd(TrimStart(s))

UrlOf(cid) == "url" \o ToString(cid)

TileIds(imgs) == { imgs[i].id : i \in DOMAIN imgs }

HasTile(imgs, id) == id \in TileIds(imgs)

TileOf(imgs, id) == imgs[CHOOSE i \in DOMAIN imgs : imgs[i].id = id]

SetMax(S) == CHOOSE y \in S : \A z \in S : z <= y

MaxZ(imgs) == SetMax({0} \cup { imgs[i].zIndex : i \in DOMAIN imgs })

----------------------------------------------------------------------------
(* TileStore: useCanvasState *)

AddImage(imgs, image) == Append(imgs, image)

\* Mutation: the update is applied to every tile of the collection.
UpdateImageOfAll(imgs, id, updates) ==
    [i \in DOMAIN imgs |-> Merge(imgs[i], updates)]

UpdateImage(imgs, id, updates) ==
    [i \in DOMAIN imgs |->
        IF imgs[i].id = id THEN Merge(imgs[i], updates) ELSE imgs[i]]

FilterOut(imgs, ids) ==
    SelectSeq(imgs, LAMBDA img : img.id \notin ids)

\* Mutation: the tiles that were selected before stay selected.
SelectImageKeepingOthers(imgs, id) ==
    [i \in DOMAIN imgs |->
        Merge(imgs[i], [selected |-> (imgs[i].id = id \/ imgs[i].selected)])]

SelectImage(imgs, id) ==
    [i \in DOMAIN imgs |-> Merge(imgs[i], [selected |-> (imgs[i].id = id)])]

\* The operations of the hook as its callers (and its test suite) invoke
\* them, one call per step.
addImage(image) ==
    /\ images' = AddImage(images, image)
    /\ nextId' = nextId + 1
    /\ UNCHANGED <<selectedImageId, currentPrompt, error, activeRequests,
                   calls, expansions, loads, saves, documentState, elapsed,
                   nextCid, debounced, lastIssued>>

updateImage(id, updates) ==
    /\ images' = UpdateImage(images, id, updates)
    /\ UNCHANGED <<selectedImageId, currentPrompt, error, activeRequests,
                   calls, expansions, loads, saves, documentState, elapsed,
                   nextId, nextCid, debounced, lastIssued>>

\* Mutation: the selection is kept when the selected tile is deleted.
deleteImageKeepingSelection(id) ==
    /\ images' = FilterOut(images, {id})
    /\ UNCHANGED <<selectedImageId, currentPrompt, error, activeRequests,
                   calls, expansions, loads, saves, documentState, elapsed,
                   nextId, nextCid, debounced, lastIssued>>

deleteImage(id) ==
    /\ images' = FilterOut(images, {id})
    /\ selectedImageId' = IF selectedImageId = id THEN NoId ELSE selectedImageId
    /\ currentPrompt' = IF selectedImageId = id THEN <<>> ELSE currentPrompt
    /\ UNCHANGED <<error, activeRequests, calls, expansions, loads, saves,
                   documentState, elapsed, nextId, nextCid, debounced,
                   lastIssued>>

selectImage(id) ==
    /\ selectedImageId' = id
    /\ images' = SelectImage(images, id)
    /\ UNCHANGED <<currentPrompt, error, activeRequests, calls, expansions,
                   loads, saves, documentState, elapsed, nextId, nextCid,
                   debounced, lastIssued>>

setCurrentPrompt(p) ==
    /\ currentPrompt' = p
    /\ UNCHANGED <<images, selectedImageId, error, activeRequests, calls,
                   expansions, loads, saves, documentState, elapsed, nextId,
                   nextCid, debounced, lastIssued>>

clearAll ==
    /\ images' = << >>
    /\ selectedImageId' = NoId
    /\ currentPrompt' = <<>>
    /\ error' = NoError
    /\ UNCHANGED <<activeRequests, calls, expansions, loads, saves,
                   documentState, elapsed, nextId, nextCid, debounced,
                   lastIssued>>

----------------------------------------------------------------------------
(* GenerationCoordinator: useImageGeneration *)

\* The coordinator's part of the state, threaded through its functions.
Coord == [error |-> error, activeRequests |-> activeRequests, calls |-> calls,
          nextCid |-> nextCid, lastIssued |-> lastIssued]

Abort(cls, cid) ==
    IF cid \in DOMAIN cls THEN [cls EXCEPT ![cid].aborted = TRUE] ELSE cls

CancelActiveRequest(S, tileId) ==
    IF tileId \in DOMAIN S.activeRequests
    THEN [S EXCEPT !.calls = Abort(S.calls, S.activeRequests[tileId]),
                   !.activeRequests = Remove(S.activeRequests, tileId)]
    ELSE S

\* Mutation: the prompt is tested for emptiness without trimming it.
GenerateImageForTileUntrimmed(S, tileId, prompt) ==
    IF prompt = <<>>
    THEN [S EXCEPT !.error = EmptyPromptError]
    ELSE LET C == CancelActiveRequest(S, tileId)
             cid == C.nextCid
         IN [C EXCEPT !.activeRequests = Put(C.activeRequests, tileId, cid),
                      !.calls = Put(C.calls, cid,
                                    [tileId |-> tileId, phase |-> "service",
                                     aborted |-> FALSE]),
                      !.nextCid = cid + 1,
                      !.lastIssued = Put(C.lastIssued, tileId, cid)]

\* generateImageForTile up to its first await.
GenerateImageForTile(S, tileId, prompt) ==
    IF Trim(prompt) = <<>>
    THEN [S EXCEPT !.error = EmptyPromptError]
    ELSE LET C == CancelActiveRequest(S, tileId)
             cid == C.nextCid
         IN [C EXCEPT !.activeRequests = Put(C.activeRequests, tileId, cid),
                      !.calls = Put(C.calls, cid,
                                    [tileId |-> tileId, phase |-> "service",
                                     aborted |-> FALSE]),
                      !.nextCid = cid + 1,
                      !.lastIssued = Put(C.lastIssued, tileId, cid)]

SetCoord(S) ==
    /\ error' = S.error
    /\ activeRequests' = S.activeRequests
    /\ calls' = S.calls
    /\ nextCid' = S.nextCid
    /\ lastIssued' = S.lastIssued

----------------------------------------------------------------------------
(* ZIndexAllocator: useImageOperations *)

\* Position of imgs[i] in the stable ascending sort by zIndex.
SortRank(imgs, i) ==
    1 + Cardinality({ j \in DOMAIN imgs :
                        \/ imgs[j].zIndex < imgs[i].zIndex
                        \/ imgs[j].zIndex = imgs[i].zIndex /\ j < i })

\* Mutation: the tiles are renumbered in descending order of their zIndex.
NormalizeZIndexesDescending(imgs) ==
    [i \in DOMAIN imgs |->
        Merge(imgs[i], [zIndex |-> Len(imgs) + 1 - SortRank(imgs, i)])]

NormalizeZIndexes(imgs) ==
    [i \in DOMAIN imgs |-> Merge(imgs[i], [zIndex |-> SortRank(imgs, i)])]

\* Mutation: the ceiling is never checked, the tile always gets maxZ + 1.
GetSmartZIndexUnbounded(imgs, imageId) ==
    LET maxZ == MaxZ(imgs)
    IN IF HasTile(imgs, imageId) /\ TileOf(imgs, imageId).zIndex = maxZ /\ maxZ > 0
       THEN [z |-> maxZ, imgs |-> imgs]
       ELSE [z |-> maxZ + 1, imgs |-> imgs]

\* getSmartZIndex: the value returned and the collection after its updates.
GetSmartZIndex(imgs, imageId) ==
    LET maxZ == MaxZ(imgs)
    IN IF HasTile(imgs, imageId) /\ TileOf(imgs, imageId).zIndex = maxZ /\ maxZ > 0
       THEN [z |-> maxZ, imgs |-> imgs]
       ELSE IF maxZ >= MAX_Z_INDEX
            THEN [z |-> Len(imgs) + 1, imgs |-> NormalizeZIndexes(imgs)]
            ELSE [z |-> maxZ + 1, imgs |-> imgs]

----------------------------------------------------------------------------
(* User event handlers *)

\* Mutation: the gate is given the prompt of the state, which is the value
\* before this edit, instead of the new value.
HandlePromptChangePassingState(p) ==
    /\ currentPrompt' = p
    /\ debounced' = <<currentPrompt>>
    /\ elapsed' = [last |-> 0,
                   first |-> IF debounced = <<>> THEN 0 ELSE elapsed.first]
    /\ UNCHANGED <<images, selectedImageId, error, activeRequests, calls,
                   expansions, loads, saves, documentState, nextId, nextCid,
                   lastIssued>>

\* ImageCanvas.handlePromptChange: record the edit and (re)arm the debounce.
\* The quiet period restarts; the maximum wait runs from the first edit
\* that has not been fired.
HandlePromptChange(p) ==
    /\ currentPrompt' = p
    /\ debounced' = <<p>>
    /\ elapsed' = [last |-> 0,
                   first |-> IF debounced = <<>> THEN 0 ELSE elapsed.first]
    /\ UNCHANGED <<images, selectedImageId, error, activeRequests, calls,
                   expansions, loads, saves, documentState, nextId, nextCid,
                   lastIssued>>

CreateNewTile(prompt) ==
    LET newImage == [id |-> nextId, src |-> "", prompt |-> prompt,
                     selected |-> TRUE, displayState |-> "loading",
                     zIndex |-> MaxZ(images) + 1]
    IN /\ images' = SelectImage(AddImage(images, newImage), nextId)
       /\ selectedImageId' = nextId
       /\ nextId' = nextId + 1
       /\ SetCoord(GenerateImageForTile(Coord, nextId, prompt))
       /\ UNCHANGED <<currentPrompt, expansions, loads, saves, documentState>>

\* Mutation: the regenerated tile drops its previous image.
UpdateSelectedTileClearingSrc(prompt) ==
    /\ images' = UpdateImage(images, selectedImageId,
                             [prompt |-> prompt, src |-> "",
                              displayState |-> "updating"])
    /\ SetCoord(GenerateImageForTile(
                    CancelActiveRequest(Coord, selectedImageId),
                    selectedImageId, prompt))
    /\ UNCHANGED <<selectedImageId, currentPrompt, expansions, loads, saves,
                   documentState, nextId>>

UpdateSelectedTile(prompt) ==
    /\ images' = UpdateImage(images, selectedImageId,
                             [prompt |-> prompt, displayState |-> "updating"])
    /\ SetCoord(GenerateImageForTile(
                    CancelActiveRequest(Coord, selectedImageId),
                    selectedImageId, prompt))
    /\ UNCHANGED <<selectedImageId, currentPrompt, expansions, loads, saves,
                   documentState, nextId>>

\* Mutation: the gate is created without the maxWait option.
GateOptionsWithoutMaxWait ==
    [wait |-> DEBOUNCE_DELAY, maxing |-> FALSE, maxWait |-> MAX_WAIT]

\* The arguments of useDebouncedCallback in ImageCanvas.
GateOptions ==
    [wait |-> DEBOUNCE_DELAY, maxing |-> TRUE, maxWait |-> MAX_WAIT]

\* The delays of the gate in steps of the clock.
QuietTicks == TicksPerDelay

MaxWaitTicks == (GateOptions.maxWait * TicksPerDelay) \div GateOptions.wait

\* The pending call is due: the quiet period after the last edit is over,
\* or the maximum wait since the first edit that was not fired.
Due ==
    /\ debounced # <<>>
    /\ \/ elapsed.last >= QuietTicks
       \/ GateOptions.maxing /\ elapsed.first >= MaxWaitTicks

\* Time passes while a call is pending and not due: a due call is fired
\* before more time passes.
Tick ==
    /\ debounced # <<>>
    /\ ~Due
    /\ elapsed' = [last |-> elapsed.last + 1, first |-> elapsed.first + 1]
    /\ UNCHANGED <<images, selectedImageId, currentPrompt, error,
                   activeRequests, calls, expansions, loads, saves,
                   documentState, nextId, nextCid, debounced, lastIssued>>

\* Mutation: the callback does nothing when no tile is selected.
DebounceFireWithoutCreate ==
    /\ debounced # <<>>
    /\ debounced' = <<>>
    /\ elapsed' = NoTime
    /\ IF selectedImageId # NoId
       THEN UpdateSelectedTile(debounced[1])
       ELSE UNCHANGED <<images, selectedImageId, currentPrompt, error,
                        activeRequests, calls, expansions, loads, saves,
                        documentState, nextId, nextCid, lastIssued>>

\* The debounced callback of ImageCanvas fires with the last edit.
DebounceFire ==
    /\ debounced # <<>>
    /\ debounced' = <<>>
    /\ elapsed' = NoTime
    /\ IF selectedImageId # NoId
       THEN UpdateSelectedTile(debounced[1])
       ELSE CreateNewTile(debounced[1])

\* Mutation: the selected tile is raised even when it is already on top.
HandleImageSelectAlwaysRaising(id) ==
    /\ HasTile(images, id)
    /\ images' = UpdateImage(SelectImage(images, id), id,
                             [zIndex |-> MaxZ(images) + 1])
    /\ selectedImageId' = id
    /\ currentPrompt' = IF TileOf(images, id).prompt # <<>>
                        THEN TileOf(images, id).prompt ELSE currentPrompt
    /\ UNCHANGED <<error, activeRequests, calls, expansions, loads, saves,
                   documentState, elapsed, nextId, nextCid, debounced,
                   lastIssued>>

HandleImageSelect(id) ==
    LET selected == SelectImage(images, id)
        smart == GetSmartZIndex(images, id)
        \* normalizeZIndexes only writes zIndex, on top of the selection update
        normalized == [i \in DOMAIN images |->
                          Merge(selected[i], [zIndex |-> smart.imgs[i].zIndex])]
    IN /\ HasTile(images, id)
       /\ images' = UpdateImage(normalized, id, [zIndex |-> smart.z])
       /\ selectedImageId' = id
       /\ currentPrompt' = IF TileOf(images, id).prompt # <<>>
                           THEN TileOf(images, id).prompt ELSE currentPrompt
       /\ UNCHANGED <<error, activeRequests, calls, expansions, loads, saves,
                      documentState, elapsed, nextId, nextCid, debounced,
                      lastIssued>>

HandleCanvasClick ==
    /\ images' = SelectImage(images, NoId)
    /\ selectedImageId' = NoId
    /\ currentPrompt' = <<>>
    /\ UNCHANGED <<error, activeRequests, calls, expansions, loads, saves,
                   documentState, elapsed, nextId, nextCid, debounced,
                   lastIssued>>

HandleImageDelete(id) ==
    /\ HasTile(images, id)
    /\ SetCoord(CancelActiveRequest(Coord, id))
    /\ images' = FilterOut(images, {id})
    /\ selectedImageId' = IF selectedImageId = id THEN NoId ELSE selectedImageId
    /\ currentPrompt' = IF selectedImageId = id THEN <<>> ELSE currentPrompt
    /\ UNCHANGED <<expansions, loads, saves, documentState, elapsed, nextId,
                   debounced>>

\* Mutation: the copy keeps the selected flag of the tile it was made from.
HandleImageDuplicateKeepingSelected(id) ==
    /\ HasTile(images, id)
    /\ images' = AddImage(images,
                          Merge(TileOf(images, id),
                                [id |-> nextId, displayState |-> "ready",
                                 zIndex |-> MaxZ(images) + 1]))
    /\ nextId' = nextId + 1
    /\ UNCHANGED <<selectedImageId, currentPrompt, error, activeRequests,
                   calls, expansions, loads, saves, documentState, elapsed,
                   nextCid, debounced, lastIssued>>

HandleImageDuplicate(id) ==
    /\ HasTile(images, id)
    /\ images' = AddImage(images,
                          Merge(TileOf(images, id),
                                [id |-> nextId, selected |-> FALSE,
                                 displayState |-> "ready",
                                 zIndex |-> MaxZ(images) + 1]))
    /\ nextId' = nextId + 1
    /\ UNCHANGED <<selectedImageId, currentPrompt, error, activeRequests,
                   calls, expansions, loads, saves, documentState, elapsed,
                   nextCid, debounced, lastIssued>>

\* The tiles created by the expansion e: four consecutive fresh ids.
PlaceholderIds(e) == e.placeholders .. (e.placeholders + 3)

\* Mutation: the placeholders are stacked above the value of the source.
PlaceholderImagesOnTop(imageToExpand, firstId, placeholderStartZ) ==
    [index \in 1..4 |->
        [id |-> firstId + index - 1, src |-> "",
         prompt |-> imageToExpand.prompt \o GeneratingSuffix,
         selected |-> FALSE, displayState |-> "loading",
         zIndex |-> placeholderStartZ + 4 + index]]

\* The four placeholder tiles of an expansion.
PlaceholderImages(imageToExpand, firstId, placeholderStartZ) ==
    [index \in 1..4 |->
        [id |-> firstId + index - 1, src |-> "",
         prompt |-> imageToExpand.prompt \o GeneratingSuffix,
         selected |-> FALSE, displayState |-> "loading",
         zIndex |-> placeholderStartZ + index - 1]]

\* Mutation: the expansion does not test the prompt of the tile.
HandleImageExpandUnguarded(id) ==
    IF ~HasTile(images, id)
    THEN UNCHANGED vars
    ELSE
    /\ LET imageToExpand == TileOf(images, id)
           placeholderStartZ == MaxZ(images) + 1
           expandedImageZ == placeholderStartZ + 4
           updatedImages == [i \in DOMAIN images |->
                                IF images[i].id = id
                                THEN Merge(images[i], [zIndex |-> expandedImageZ])
                                ELSE images[i]]
           placeholderImages ==
               PlaceholderImages(imageToExpand, nextId, placeholderStartZ)
       IN /\ images' = updatedImages \o placeholderImages
          /\ expansions' = expansions \cup
                 {[source |-> id, prompt |-> imageToExpand.prompt,
                   placeholders |-> nextId, phase |-> "variations",
                   cids |-> {}]}
          /\ nextId' = nextId + 4
    /\ UNCHANGED <<selectedImageId, currentPrompt, error, activeRequests,
                   calls, loads, saves, documentState, elapsed, nextCid,
                   debounced, lastIssued>>

\* handleImageExpand up to the await of the prompt variations.  Without a
\* tile of that id, or without a prompt on it, the handler returns at once.
HandleImageExpand(id) ==
    IF ~HasTile(images, id) \/ TileOf(images, id).prompt = <<>>
    THEN UNCHANGED vars
    ELSE
    /\ LET imageToExpand == TileOf(images, id)
           placeholderStartZ == MaxZ(images) + 1
           expandedImageZ == placeholderStartZ + 4
           updatedImages == [i \in DOMAIN images |->
                                IF images[i].id = id
                                THEN Merge(images[i], [zIndex |-> expandedImageZ])
                                ELSE images[i]]
           placeholderImages ==
               PlaceholderImages(imageToExpand, nextId, placeholderStartZ)
       IN /\ images' = updatedImages \o placeholderImages
          /\ expansions' = expansions \cup
                 {[source |-> id, prompt |-> imageToExpand.prompt,
                   placeholders |-> nextId, phase |-> "variations",
                   cids |-> {}]}
          /\ nextId' = nextId + 4
    /\ UNCHANGED <<selectedImageId, currentPrompt, error, activeRequests,
                   calls, loads, saves, documentState, elapsed, nextCid,
                   debounced, lastIssued>>

\* Mutation: the placeholders stay in the store when the variations fail.
VariationsFailKeepingPlaceholders(e) ==
    /\ e \in expansions
    /\ e.phase = "variations"
    /\ error' = VariationsError
    /\ expansions' = expansions \ {e}
    /\ UNCHANGED <<images, selectedImageId, currentPrompt, activeRequests,
                   calls, loads, saves, documentState, elapsed, nextId,
                   nextCid, debounced, lastIssued>>

\* The awaited generatePromptVariations answers without a list of
\* variations: the service failed, threw, or sent none.
VariationsFail(e) ==
    /\ e \in expansions
    /\ e.phase = "variations"
    /\ error' = VariationsError
    /\ images' = FilterOut(images, PlaceholderIds(e))
    /\ expansions' = expansions \ {e}
    /\ UNCHANGED <<selectedImageId, currentPrompt, activeRequests, calls,
                   loads, saves, documentState, elapsed, nextId, nextCid,
                   debounced, lastIssued>>

\* variationsResult.variations[index] of an answer of n variations; beyond
\* the n-th there is none (undefined), modelled as the empty prompt.
VariationPrompt(e, n, index) ==
    IF index <= n THEN e.prompt \o <<",", ToString(index)>> ELSE <<>>

\* The first `count' iterations of placeholderImages.map(...) up to the
\* await in each: the prompt of the placeholder is replaced, then
\* generateImageForTile runs up to its first await.
RECURSIVE FanOut(_, _, _, _)
FanOut(S, e, n, count) ==
    IF count = 0
    THEN S
    ELSE LET P == FanOut(S, e, n, count - 1)
             id == e.placeholders + count - 1
             actualPrompt == VariationPrompt(e, n, count)
             G == GenerateImageForTile(P.coord, id, actualPrompt)
         IN [images |-> UpdateImage(P.images, id, [prompt |-> actualPrompt]),
             coord |-> G,
             cids |-> P.cids \cup (DOMAIN G.calls \ DOMAIN P.coord.calls)]

\* Placeholders of e that imagesRef.current shows as failed.  The ref is
\* assigned when the component renders, and React renders the updates of a
\* continuation in a later task: in the turn in which Promise.allSettled
\* resolves, the ref holds the tiles as they were when the turn began.
FailedTiles(e) ==
    { id \in PlaceholderIds(e) :
        HasTile(images, id) /\ TileOf(images, id).displayState = "failed" }

FailedVariationsError(k) ==
    "Failed to generate " \o ToString(k) \o " of 4 variations"

\* Mutation: Promise.allSettled resolves as soon as one generation settled.
ReturningOnFirstSettled(exps, cls) ==
    { e \in exps : e.phase = "generating" /\ e.cids \ DOMAIN cls # {} }

\* Expansions of exps whose Promise.allSettled resolves once the calls still
\* awaited are cls: every generateImageForTile they started has returned.
Returning(exps, cls) ==
    { e \in exps : e.phase = "generating" /\ e.cids \cap DOMAIN cls = {} }

\* Mutation: an expansion ends only while all its placeholders are in the
\* store.
ExpandReturnAwaitingDeleted(exps, cls, err) ==
    LET returning == { e \in Returning(exps, cls) :
                         \A id \in PlaceholderIds(e) : HasTile(images, id) }
        failing == { e \in returning : FailedTiles(e) # {} }
    IN /\ expansions' = exps \ returning
       /\ error' = IF failing # {}
                   THEN FailedVariationsError(
                            Cardinality(FailedTiles(CHOOSE e \in failing : TRUE)))
                   ELSE err

\* The rest of the turn after a generateImageForTile has returned and left
\* the expansions exps, the awaited calls cls and the error err: an
\* expansion whose generations have all returned counts its failed tiles,
\* reports them and ends.
ExpandReturn(exps, cls, err) ==
    LET failing == { e \in Returning(exps, cls) : FailedTiles(e) # {} }
    IN /\ expansions' = exps \ Returning(exps, cls)
       /\ error' = IF failing # {}
                   THEN FailedVariationsError(
                            Cardinality(FailedTiles(CHOOSE e \in failing : TRUE)))
                   ELSE err

\* The awaited generatePromptVariations answers with a list of n variations.
VariationsSucceed(e, n) ==
    /\ e \in expansions
    /\ e.phase = "variations"
    /\ LET F == FanOut([images |-> images, coord |-> Coord, cids |-> {}], e, n, 4)
       IN /\ images' = F.images
          /\ activeRequests' = F.coord.activeRequests
          /\ calls' = F.coord.calls
          /\ nextCid' = F.coord.nextCid
          /\ lastIssued' = F.coord.lastIssued
          /\ ExpandReturn((expansions \ {e}) \cup
                              {[e EXCEPT !.phase = "generating", !.cids = F.cids]},
                          F.coord.calls, F.coord.error)
    /\ UNCHANGED <<selectedImageId, currentPrompt, loads, saves,
                   documentState, elapsed, nextId, debounced>>

\* clearTimeout(savedTimeoutRef.current) when the ref holds a timer.
ClearSavedTimeout(d) ==
    IF d.savedTimeout
    THEN [d EXCEPT !.savedTimeout = FALSE, !.timers = d.timers - 1]
    ELSE d

\* savedTimeoutRef.current = setTimeout(..., 2000): the ref is overwritten,
\* a timer it held before keeps running.
SetSavedTimeout(d) == [d EXCEPT !.savedTimeout = TRUE, !.timers = d.timers + 1]

\* useDocumentOperations.resetDocumentState: no document, status idle, the
\* status timer cleared.  A clipboard write that is awaited stays awaited.
ResetDocumentState(d) ==
    [ClearSavedTimeout(d) EXCEPT !.fileMenuStatus = "idle",
                                 !.lastSavedDocumentId = NoDoc]

\* Mutation: the canvas is cleared without cancelling the pending call.
ClearCanvasWithoutCancel ==
    /\ calls' = [c \in DOMAIN calls |->
                    IF \E t \in DOMAIN activeRequests : activeRequests[t] = c
                    THEN [calls[c] EXCEPT !.aborted = TRUE] ELSE calls[c]]
    /\ activeRequests' = << >>
    /\ images' = << >>
    /\ selectedImageId' = NoId
    /\ currentPrompt' = <<>>
    /\ error' = NoError
    /\ documentState' = ResetDocumentState(documentState)
    /\ UNCHANGED <<expansions, loads, saves, elapsed, nextId, nextCid,
                   debounced, lastIssued>>

\* ImageCanvas.handleClearCanvas: debounce cancel, then clearCanvas:
\* cleanup, clearAll, resetDocumentState.  The cancel drops the pending call;
\* the clocks of the timer stop where they are and are set anew by the next
\* edit.
ClearCanvas ==
    /\ debounced' = <<>>
    /\ calls' = [c \in DOMAIN calls |->
                    IF \E t \in DOMAIN activeRequests : activeRequests[t] = c
                    THEN [calls[c] EXCEPT !.aborted = TRUE] ELSE calls[c]]
    /\ activeRequests' = << >>
    /\ images' = << >>
    /\ selectedImageId' = NoId
    /\ currentPrompt' = <<>>
    /\ error' = NoError
    /\ documentState' = ResetDocumentState(documentState)
    /\ UNCHANGED <<expansions, loads, saves, elapsed, nextId, nextCid,
                   lastIssued>>

DismissError ==
    /\ error # NoError
    /\ error' = NoError
    /\ UNCHANGED <<images, selectedImageId, currentPrompt, activeRequests,
                   calls, expansions, loads, saves, documentState, elapsed,
                   nextId, nextCid, debounced, lastIssued>>

----------------------------------------------------------------------------
(* Document load: useDocumentOperations.loadDocument, DocumentService *)

\* Tiles of stored documents were created in an earlier session: their ids
\* are not ids of this session.
DocId(k) == 10 + k

\* The documents of the database, as saveDocument serialized them (id, src,
\* prompt, zIndex; no selected, no displayState).  A tile saved before its
\* first image arrived has an empty src.
Documents ==
    { << [id |-> DocId(1), src |-> "stored1", prompt |-> <<"a">>, zIndex |-> 1] >>,
      << [id |-> DocId(1), src |-> "stored1", prompt |-> <<"a">>, zIndex |-> 2],
         [id |-> DocId(2), src |-> "", prompt |-> <<>>, zIndex |-> 1] >> }

\* Mutation: every tile is stored with the default stacking value.
SaveDocumentSerializedFlat(imgs) ==
    [i \in DOMAIN imgs |->
        [id |-> imgs[i].id, src |-> imgs[i].src,
         x |-> imgs[i].x, y |-> imgs[i].y,
         width |-> imgs[i].width, height |-> imgs[i].height,
         prompt |-> imgs[i].prompt,
         zIndex |-> 1]]

\* The serialized form of a tile collection, as saveDocument writes it:
\* the listed fields of each tile, in the order of the collection, with a
\* stacking value of 1 for a tile that has none (img.zIndex || 1).
SaveDocumentSerialized(imgs) ==
    [i \in DOMAIN imgs |->
        [id |-> imgs[i].id, src |-> imgs[i].src,
         x |-> imgs[i].x, y |-> imgs[i].y,
         width |-> imgs[i].width, height |-> imgs[i].height,
         prompt |-> imgs[i].prompt,
         zIndex |-> IF imgs[i].zIndex = 0 THEN 1 ELSE imgs[i].zIndex]]

\* The serialized form as updateDocument writes it.
UpdateDocumentSerialized(imgs) ==
    [i \in DOMAIN imgs |->
        [id |-> imgs[i].id, src |-> imgs[i].src,
         x |-> imgs[i].x, y |-> imgs[i].y,
         width |-> imgs[i].width, height |-> imgs[i].height,
         prompt |-> imgs[i].prompt,
         zIndex |-> IF imgs[i].zIndex = 0 THEN 1 ELSE imgs[i].zIndex]]

\* deserializeImages: every stored field of a tile is kept (...img), then
\* src, selected and displayState are set.
\* loadDocument after Promise.all: the loaded document becomes the current
\* one (setLastSavedDocumentId, setShareUrl).
LoadCompleted(d) == [d EXCEPT !.lastSavedDocumentId = UrlDoc]

DeserializeImages(doc) ==
    [i \in DOMAIN doc |->
        [k \in DOMAIN doc[i] \cup {"src", "selected", "displayState"} |->
            CASE k = "src" -> ""
              [] k = "selected" -> FALSE
              [] k = "displayState" -> "loading"
              [] OTHER -> doc[i][k]]]

\* The awaited DocumentService.loadDocument settles.  On success the canvas
\* is cleared (clearAll), the stored tiles are put in place and a preload
\* starts for each stored tile that has a src.
LoadDocumentResolve(l, success) ==
    /\ l \in loads
    /\ l.phase = "service"
    /\ IF success
       THEN /\ images' = DeserializeImages(l.doc)
            /\ selectedImageId' = NoId
            /\ currentPrompt' = <<>>
            /\ error' = NoError
            /\ loads' = (loads \ {l}) \cup
                   { [phase |-> "preload", doc |-> l.doc, index |-> i] :
                       i \in { j \in DOMAIN l.doc : l.doc[j].src # "" } }
            /\ documentState' =
                   IF \A j \in DOMAIN l.doc : l.doc[j].src = ""
                   THEN LoadCompleted(documentState)
                   ELSE documentState
       ELSE /\ error' = LoadError
            /\ loads' = loads \ {l}
            /\ UNCHANGED <<images, selectedImageId, currentPrompt, documentState>>
    /\ UNCHANGED <<activeRequests, calls, expansions, saves, nextId, nextCid,
                   debounced, elapsed, lastIssued>>

\* Mutation: a stored image that cannot be loaded leaves its tile loading.
LoadPreloadResolveIgnoringFailure(l, loaded) ==
    /\ l \in loads
    /\ l.phase = "preload"
    /\ images' = IF loaded
                 THEN UpdateImage(images, l.doc[l.index].id,
                                  [src |-> l.doc[l.index].src,
                                   displayState |-> "ready"])
                 ELSE images
    /\ loads' = loads \ {l}
    /\ documentState' =
           IF \E m \in loads \ {l} : m.phase = "preload" /\ m.doc = l.doc
           THEN documentState
           ELSE LoadCompleted(documentState)
    /\ UNCHANGED <<selectedImageId, currentPrompt, error, activeRequests, calls,
                   expansions, saves, nextId, nextCid, debounced, elapsed,
                   lastIssued>>

\* The awaited preloadImage of a stored tile settles.
LoadPreloadResolve(l, loaded) ==
    /\ l \in loads
    /\ l.phase = "preload"
    /\ images' = IF loaded
                 THEN UpdateImage(images, l.doc[l.index].id,
                                  [src |-> l.doc[l.index].src,
                                   displayState |-> "ready"])
                 ELSE UpdateImage(images, l.doc[l.index].id,
                                  [displayState |-> "failed"])
    /\ loads' = loads \ {l}
    /\ documentState' =
           IF \E m \in loads \ {l} : m.phase = "preload" /\ m.doc = l.doc
           THEN documentState
           ELSE LoadCompleted(documentState)
    /\ UNCHANGED <<selectedImageId, currentPrompt, error, activeRequests, calls,
                   expansions, saves, nextId, nextCid, debounced, elapsed,
                   lastIssued>>

----------------------------------------------------------------------------
(* Document save: useDocumentOperations.saveDocument, copyShareUrl *)

\* The id the service gives to the n-th new document of the session.
SavedDoc(n) == UrlDoc + n

SavesOpen(svs) == { r.n : r \in svs }

\* useDocumentOperations.saveDocument up to its await: an empty canvas is
\* refused with an error, a call while the status is neither idle nor saved
\* returns null, otherwise the status timer is cleared, the status is set
\* and the request is issued: an update of the current document, or a new
\* document on the first save and on `save as new copy'.
SaveDocument(forceNew) ==
    IF images = << >>
    THEN /\ error' = EmptyCanvasError
         /\ UNCHANGED <<images, selectedImageId, currentPrompt, activeRequests,
                        calls, expansions, loads, saves, documentState, nextId,
                        nextCid, debounced, elapsed, lastIssued>>
    ELSE IF documentState.fileMenuStatus \notin {"idle", "saved"}
    THEN UNCHANGED vars
    ELSE /\ error' = NoError
         /\ documentState' =
               [ClearSavedTimeout(documentState) EXCEPT
                   !.fileMenuStatus = IF forceNew THEN "savingNewCopy" ELSE "saving"]
         /\ saves' = saves \cup
               { [n |-> CHOOSE k \in 1..(Cardinality(saves) + 1) :
                           k \notin SavesOpen(saves),
                  update |-> IF forceNew THEN NoDoc
                             ELSE documentState.lastSavedDocumentId] }
         /\ UNCHANGED <<images, selectedImageId, currentPrompt, activeRequests,
                        calls, expansions, loads, nextId, nextCid, debounced,
                        elapsed, lastIssued>>

\* The awaited DocumentService.saveDocument / updateDocument settles.
SaveResolve(r, success) ==
    /\ r \in saves
    /\ saves' = saves \ {r}
    /\ IF success
       THEN /\ documentState' =
                  [SetSavedTimeout(documentState) EXCEPT
                      !.lastSavedDocumentId =
                          IF r.update # NoDoc THEN r.update ELSE SavedDoc(r.n),
                      !.fileMenuStatus = "saved"]
            /\ UNCHANGED error
       ELSE /\ error' = SaveError
            /\ documentState' = [documentState EXCEPT !.fileMenuStatus = "idle"]
    /\ UNCHANGED <<images, selectedImageId, currentPrompt, activeRequests, calls,
                   expansions, loads, nextId, nextCid, debounced, elapsed,
                   lastIssued>>

\* useDocumentOperations.copyShareUrl up to its await: without a share URL
\* it returns false, otherwise it writes the URL to the clipboard.
CopyShareUrl ==
    /\ documentState.lastSavedDocumentId # NoDoc
    /\ documentState' = [documentState EXCEPT !.copying = @ + 1]
    /\ UNCHANGED <<images, selectedImageId, currentPrompt, error, activeRequests,
                   calls, expansions, loads, saves, nextId, nextCid, debounced,
                   elapsed, lastIssued>>

\* The awaited navigator.clipboard.writeText settles.
CopyResolve(written) ==
    /\ documentState.copying > 0
    /\ documentState' =
          IF written
          THEN [SetSavedTimeout(ClearSavedTimeout(documentState)) EXCEPT
                   !.fileMenuStatus = "copied", !.copying = @ - 1]
          ELSE [documentState EXCEPT !.copying = @ - 1]
    /\ UNCHANGED <<images, selectedImageId, currentPrompt, error, activeRequests,
                   calls, expansions, loads, saves, nextId, nextCid, debounced,
                   elapsed, lastIssued>>

\* A status timer runs out: the status returns to idle and the ref is
\* emptied.
StatusTimeout ==
    /\ documentState.timers > 0
    /\ documentState' = [documentState EXCEPT !.fileMenuStatus = "idle",
                                              !.savedTimeout = FALSE,
                                              !.timers = @ - 1]
    /\ UNCHANGED <<images, selectedImageId, currentPrompt, error, activeRequests,
                   calls, expansions, loads, saves, nextId, nextCid, debounced,
                   elapsed, lastIssued>>

----------------------------------------------------------------------------
(* Continuations of generateImageForTile *)

\* The awaited AIService.generateImage settles.  An aborted request settles
\* as 'Request cancelled'; otherwise the service answers with an image URL
\* or with an error.
ServiceOutcomes(call) ==
    IF call.aborted THEN {"cancelled"} ELSE {"ok", "fail"}

\* Mutation: a failed call leaves the tile `ready' instead of `failed'.
ServiceResolveFailingToReady(cid, outcome) ==
    /\ cid \in DOMAIN calls
    /\ calls[cid].phase = "service"
    /\ outcome \in ServiceOutcomes(calls[cid])
    /\ LET tileId == calls[cid].tileId
       IN /\ activeRequests' = Remove(activeRequests, tileId)
          /\ CASE outcome = "ok" ->
                    /\ calls' = [calls EXCEPT ![cid].phase = "preload"]
                    /\ UNCHANGED <<images, error, expansions>>
               [] outcome = "fail" ->
                    /\ calls' = Remove(calls, cid)
                    /\ ExpandReturn(expansions, Remove(calls, cid), ServiceError)
                    /\ images' = UpdateImage(images, tileId,
                                             [displayState |-> "ready"])
               [] outcome = "cancelled" ->
                    /\ calls' = Remove(calls, cid)
                    /\ ExpandReturn(expansions, Remove(calls, cid), error)
                    /\ UNCHANGED images
    /\ UNCHANGED <<selectedImageId, currentPrompt, loads, saves,
                   documentState, elapsed, nextId, nextCid, debounced,
                   lastIssued>>

ServiceResolve(cid, outcome) ==
    /\ cid \in DOMAIN calls
    /\ calls[cid].phase = "service"
    /\ outcome \in ServiceOutcomes(calls[cid])
    /\ LET tileId == calls[cid].tileId
       IN /\ activeRequests' = Remove(activeRequests, tileId)
          /\ CASE outcome = "ok" ->
                    /\ calls' = [calls EXCEPT ![cid].phase = "preload"]
                    /\ UNCHANGED <<images, error, expansions>>
               [] outcome = "fail" ->
                    /\ calls' = Remove(calls, cid)
                    /\ ExpandReturn(expansions, Remove(calls, cid), ServiceError)
                    /\ images' = UpdateImage(images, tileId,
                                             [displayState |-> "failed"])
               [] outcome = "cancelled" ->
                    /\ calls' = Remove(calls, cid)
                    /\ ExpandReturn(expansions, Remove(calls, cid), error)
                    /\ UNCHANGED images
    /\ UNCHANGED <<selectedImageId, currentPrompt, loads, saves,
                   documentState, elapsed, nextId, nextCid, debounced,
                   lastIssued>>

\* Mutation: a failed preload commits the URL all the same.
PreloadResolveCommittingAlways(cid, loaded) ==
    /\ cid \in DOMAIN calls
    /\ calls[cid].phase = "preload"
    /\ images' = IF loaded
                 THEN UpdateImage(images, calls[cid].tileId,
                                  [src |-> UrlOf(cid), displayState |-> "ready"])
                 ELSE UpdateImage(images, calls[cid].tileId,
                                  [src |-> UrlOf(cid), displayState |-> "failed"])
    /\ calls' = Remove(calls, cid)
    /\ ExpandReturn(expansions, Remove(calls, cid), error)
    /\ UNCHANGED <<selectedImageId, currentPrompt, activeRequests, loads,
                   saves, documentState, elapsed, nextId, nextCid, debounced,
                   lastIssued>>

\* The awaited preloadImage settles (img.onload / img.onerror).
PreloadResolve(cid, loaded) ==
    /\ cid \in DOMAIN calls
    /\ calls[cid].phase = "preload"
    /\ images' = IF loaded
                 THEN UpdateImage(images, calls[cid].tileId,
                                  [src |-> UrlOf(cid), displayState |-> "ready"])
                 ELSE UpdateImage(images, calls[cid].tileId,
                                  [displayState |-> "failed"])
    /\ calls' = Remove(calls, cid)
    /\ ExpandReturn(expansions, Remove(calls, cid), error)
    /\ UNCHANGED <<selectedImageId, currentPrompt, activeRequests, loads,
                   saves, documentState, elapsed, nextId, nextCid, debounced,
                   lastIssued>>

----------------------------------------------------------------------------
(* Specifications *)

Init ==
    /\ images = << >>
    /\ selectedImageId = NoId
    /\ currentPrompt = <<>>
    /\ error = NoError
    /\ activeRequests = << >>
    /\ calls = << >>
    /\ expansions = {}
    /\ loads = {}
    /\ saves = {}
    /\ documentState = NoDocument
    /\ nextId = 1
    /\ nextCid = 1
    /\ debounced = <<>>
    /\ elapsed = NoTime
    /\ lastIssued = << >>

\* Stacking values explored: those that a renormalization yields and `more'
\* above them, and from ZSlack below the ceiling to 3 * ZSlack above it.
ZWindow(more) ==
    /\ \/ MaxZ(images') <= Len(images') + 1 + more
       \/ MaxZ(images') >= MAX_Z_INDEX - ZSlack
    /\ MaxZ(images') <= MAX_Z_INDEX + 3 * ZSlack

\* The part of the state space explored: tiles and calls ever created.
Within(maxTiles, maxCalls) ==
    /\ nextId' <= maxTiles + 1
    /\ nextCid' <= maxCalls + 1
    /\ ZWindow(0)

(* Spec: the whole tile lifecycle on a few tiles with few calls. *)
WithinBounds == Within(MaxTiles, MaxCalls)

Next ==
    \/ \E p \in Prompts : HandlePromptChange(p) /\ WithinBounds
    \/ DebounceFire /\ WithinBounds
    \/ \E id \in TileIds(images) : HandleImageSelect(id) /\ WithinBounds
    \/ HandleCanvasClick /\ WithinBounds
    \/ \E id \in TileIds(images) : HandleImageDelete(id) /\ WithinBounds
    \/ ClearCanvas /\ WithinBounds
    \/ DismissError /\ WithinBounds
    \/ \E cid \in DOMAIN calls, outcome \in {"ok", "fail", "cancelled"} :
          ServiceResolve(cid, outcome)
    \/ \E cid \in DOMAIN calls, loaded \in BOOLEAN : PreloadResolve(cid, loaded)

Spec == Init /\ [][Next]_vars

(* A canvas that has been in use for a while: its tiles are ready and their *)
(* stacking values have been raised by repeated selection, some of them up  *)
(* to the ceiling.                                                          *)
ZStarts == {1, 2, MAX_Z_INDEX - 2, MAX_Z_INDEX - 1, MAX_Z_INDEX}

PresetCanvases(n) ==
    { [i \in 1..n |-> [id |-> i, src |-> UrlOf(0), prompt |-> <<"a">>,
                       selected |-> FALSE, displayState |-> "ready",
                       zIndex |-> z[i]]] :
        z \in { f \in [1..n -> ZStarts] :
                  \A i, j \in 1..n : i # j => f[i] # f[j] } }

InitPreset(sizes) ==
    /\ \E n \in sizes : /\ images \in PresetCanvases(n)
                         /\ nextId = n + 1
    /\ selectedImageId = NoId
    /\ currentPrompt = <<>>
    /\ error = NoError
    /\ activeRequests = << >>
    /\ calls = << >>
    /\ expansions = {}
    /\ loads = {}
    /\ saves = {}
    /\ documentState = NoDocument
    /\ nextCid = 1
    /\ debounced = <<>>
    /\ elapsed = NoTime
    /\ lastIssued = << >>

(* SpecZ: every operation that assigns stacking values, on such a canvas. *)
InitZ == InitPreset({1})

WithinBoundsZ ==
    /\ nextId' <= 2 + MaxNewTilesZ
    /\ nextCid' <= MaxCallsZ + 1
    /\ ZWindow(0)

NextZ ==
    \/ HandlePromptChange(<<"a">>) /\ WithinBoundsZ
    \/ DebounceFire /\ WithinBoundsZ
    \/ \E id \in TileIds(images) : HandleImageSelect(id) /\ WithinBoundsZ
    \/ HandleCanvasClick /\ WithinBoundsZ
    \/ \E id \in TileIds(images) : HandleImageDelete(id) /\ WithinBoundsZ
    \/ \E id \in TileIds(images) : HandleImageDuplicate(id) /\ WithinBoundsZ
    \/ \E id \in TileIds(images) : HandleImageExpand(id) /\ WithinBoundsZ

SpecZ == InitZ /\ [][NextZ]_vars

(* SpecGen: the generation lifecycle with repeated regeneration of a tile. *)
WithinBoundsGen == Within(MaxTilesGen, MaxCallsGen)

NextGen ==
    \/ \E p \in Prompts : HandlePromptChange(p) /\ WithinBoundsGen
    \/ DebounceFire /\ WithinBoundsGen
    \/ \E id \in TileIds(images) : HandleImageSelect(id) /\ WithinBoundsGen
    \/ HandleCanvasClick /\ WithinBoundsGen
    \/ \E id \in TileIds(images) : HandleImageDelete(id) /\ WithinBoundsGen
    \/ ClearCanvas /\ WithinBoundsGen
    \/ DismissError /\ WithinBoundsGen
    \/ \E cid \in DOMAIN calls, outcome \in {"ok", "fail", "cancelled"} :
          ServiceResolve(cid, outcome)
    \/ \E cid \in DOMAIN calls, loaded \in BOOLEAN : PreloadResolve(cid, loaded)

SpecGen == Init /\ [][NextGen]_vars

(* SpecFront: bringToFront on a fixed set of tiles. *)
InitFront == InitPreset({PresetTiles})

NextFront ==
    \/ \E id \in TileIds(images) : HandleImageSelect(id) /\ ZWindow(ZSlack)
    \/ HandleCanvasClick

SpecFront == InitFront /\ [][NextFront]_vars

(* SpecStore: the tile store alone, driven through its operations with    *)
(* tiles and field updates as the callers of the hook pass them, and with *)
(* ids of tiles that are in the store, were deleted, or never existed.    *)
NewTile(id) ==
    [id |-> id, src |-> UrlOf(0), prompt |-> <<"a">>, selected |-> FALSE,
     displayState |-> "ready", zIndex |-> id]

StoreUpdates ==
    { [prompt |-> <<"b">>, displayState |-> "updating"],
      [zIndex |-> MAX_Z_INDEX] }

StoreIds == 1..nextId

NextStore ==
    \/ addImage(NewTile(nextId)) /\ nextId' <= MaxStoreTiles + 1
    \/ \E id \in StoreIds, updates \in StoreUpdates : updateImage(id, updates)
    \/ \E id \in StoreIds : deleteImage(id)
    \/ \E id \in StoreIds \cup {NoId} : selectImage(id)
    \/ \E p \in Prompts : setCurrentPrompt(p)
    \/ clearAll

SpecStore == Init /\ [][NextStore]_vars

(* SpecExpand: expansions on a canvas of two ready tiles, one of which may *)
(* have lost its prompt: the variations answer or fail, the generations   *)
(* of the placeholders settle, tiles are deleted meanwhile.               *)
ExpandCanvases ==
    { [i \in 1..2 |-> [id |-> i, src |-> UrlOf(0),
                       prompt |-> IF i = 1 THEN p ELSE <<"a">>,
                       selected |-> FALSE, displayState |-> "ready",
                       zIndex |-> IF i = top THEN 2 ELSE 1]] :
        p \in {<<>>, <<Space>>, <<"a">>}, top \in 1..2 }

InitExpand ==
    /\ images \in ExpandCanvases
    /\ nextId = 3
    /\ selectedImageId = NoId
    /\ currentPrompt = <<>>
    /\ error = NoError
    /\ activeRequests = << >>
    /\ calls = << >>
    /\ expansions = {}
    /\ loads = {}
    /\ saves = {}
    /\ documentState = NoDocument
    /\ nextCid = 1
    /\ debounced = <<>>
    /\ elapsed = NoTime
    /\ lastIssued = << >>

\* Numbers of variations in an answer of the variations service.
VariationCounts == 0..4

\* AIService.generatePromptVariations fails on a blank prompt without
\* calling the service.
CanAnswer(e) == Trim(e.prompt) # <<>>

WithinBoundsExpand ==
    /\ nextId' <= MaxTilesExpand + 1
    /\ nextCid' <= MaxCallsExpand + 1

NextExpand ==
    \/ \E id \in 1..nextId : HandleImageExpand(id) /\ WithinBoundsExpand
    \/ \E e \in expansions : VariationsFail(e)
    \/ \E e \in expansions, n \in VariationCounts :
          CanAnswer(e) /\ VariationsSucceed(e, n) /\ WithinBoundsExpand
    \/ \E id \in TileIds(images) : HandleImageDelete(id)
    \/ DismissError
    \/ \E cid \in DOMAIN calls, outcome \in {"ok", "fail", "cancelled"} :
          ServiceResolve(cid, outcome)
    \/ \E cid \in DOMAIN calls, loaded \in BOOLEAN : PreloadResolve(cid, loaded)

SpecExpand == InitExpand /\ [][NextExpand]_vars

(* SpecSelect: every operation that writes the selection or replaces the  *)
(* tile collection, on a page opened with or without a document to load   *)
(* (loadDocument runs once, when the page is mounted).  Prompt edits fire  *)
(* while no tile is selected, so that they create tiles; generation calls  *)
(* stay unanswered.                                                        *)
InitSelect ==
    /\ images = << >>
    /\ selectedImageId = NoId
    /\ currentPrompt = <<>>
    /\ error = NoError
    /\ activeRequests = << >>
    /\ calls = << >>
    /\ expansions = {}
    /\ loads \in {{}} \cup
                 { {[phase |-> "service", doc |-> d, index |-> 0]} :
                     d \in { doc \in Documents : Len(doc) = 1 } }
    /\ saves = {}
    /\ documentState = NoDocument
    /\ nextId = 1
    /\ nextCid = 1
    /\ debounced = <<>>
    /\ elapsed = NoTime
    /\ lastIssued = << >>

WithinBoundsSelect == Within(MaxTilesSelect, MaxCallsSelect)

NextSelect ==
    \/ HandlePromptChange(<<"a">>) /\ WithinBoundsSelect
    \/ selectedImageId = NoId /\ DebounceFire /\ WithinBoundsSelect
    \/ \E id \in TileIds(images) : HandleImageSelect(id) /\ WithinBoundsSelect
    \/ HandleCanvasClick /\ WithinBoundsSelect
    \/ \E id \in TileIds(images) : HandleImageDelete(id) /\ WithinBoundsSelect
    \/ \E id \in TileIds(images) : HandleImageDuplicate(id) /\ WithinBoundsSelect
    \/ \E id \in TileIds(images) : HandleImageExpand(id) /\ WithinBoundsSelect
    \/ \E e \in expansions : VariationsFail(e)
    \/ ClearCanvas /\ WithinBoundsSelect
    \/ \E l \in loads, success \in BOOLEAN :
          LoadDocumentResolve(l, success) /\ WithinBoundsSelect
    \/ \E l \in loads, loaded \in BOOLEAN : LoadPreloadResolve(l, loaded)

SpecSelect == InitSelect /\ [][NextSelect]_vars

(* SpecGate: the debounce gate in time.  Prompts are edited, time passes, *)
(* the pending call fires when it is due or is cancelled by a clear, and  *)
(* meanwhile the selection changes, tiles are deleted and generations     *)
(* settle.  An edit arrives while its fire can still create a tile and    *)
(* issue a call within the bounds.                                        *)
GateRoom ==
    /\ nextId <= MaxTilesGate
    /\ nextCid <= MaxCallsGate

NextGate ==
    \/ \E p \in Prompts : GateRoom /\ HandlePromptChange(p)
    \/ Tick
    \/ Due /\ DebounceFire
    \/ ClearCanvas
    \/ \E id \in TileIds(images) : HandleImageSelect(id) /\ ZWindow(0)
    \/ HandleCanvasClick
    \/ \E id \in TileIds(images) : HandleImageDelete(id)
    \/ \E cid \in DOMAIN calls, outcome \in {"ok", "fail", "cancelled"} :
          ServiceResolve(cid, outcome)
    \/ \E cid \in DOMAIN calls, loaded \in BOOLEAN : PreloadResolve(cid, loaded)

SpecGate == Init /\ [][NextGate]_vars

(* SpecGateLive: the same handlers on the way to the first tile, with    *)
(* time passing and a timer that is due running its callback.             *)
GateRoomLive ==
    /\ nextId <= MaxTilesGateLive
    /\ nextCid <= MaxCallsGateLive

NextGateLive ==
    \/ \E p \in Prompts : GateRoomLive /\ HandlePromptChange(p)
    \/ Tick
    \/ Due /\ DebounceFire
    \/ ClearCanvas
    \/ \E id \in TileIds(images) : HandleImageSelect(id) /\ ZWindow(0)
    \/ HandleCanvasClick
    \/ \E id \in TileIds(images) : HandleImageDelete(id)
    \/ \E cid \in DOMAIN calls, outcome \in {"ok", "fail", "cancelled"} :
          ServiceResolve(cid, outcome)
    \/ \E cid \in DOMAIN calls, loaded \in BOOLEAN : PreloadResolve(cid, loaded)

SpecGateLive ==
    /\ Init
    /\ [][NextGateLive]_vars
    /\ WF_vars(Tick)
    /\ WF_vars(Due /\ DebounceFire)

(* SpecLoad: the page is opened with a document to load; while the service *)
(* call and the preloads of the stored images are awaited, prompts are     *)
(* typed and fired, tiles are selected and deleted, generations settle.    *)
\* The documents that are opened: those of Documents and one with two tiles
\* that both have a stored image.
LoadDocuments ==
    Documents \cup
    { << [id |-> DocId(1), src |-> "stored1", prompt |-> <<"a">>, zIndex |-> 1],
         [id |-> DocId(2), src |-> "stored2", prompt |-> <<"a">>, zIndex |-> 2] >> }

InitLoad ==
    /\ images = << >>
    /\ selectedImageId = NoId
    /\ currentPrompt = <<>>
    /\ error = NoError
    /\ activeRequests = << >>
    /\ calls = << >>
    /\ expansions = {}
    /\ loads \in { {[phase |-> "service", doc |-> d, index |-> 0]} :
                     d \in LoadDocuments }
    /\ saves = {}
    /\ documentState = NoDocument
    /\ nextId = 1
    /\ nextCid = 1
    /\ debounced = <<>>
    /\ elapsed = NoTime
    /\ lastIssued = << >>

WithinBoundsLoad == Within(MaxTilesLoad, MaxCallsLoad)

NextLoad ==
    \/ HandlePromptChange(<<"a">>) /\ WithinBoundsLoad
    \/ DebounceFire /\ WithinBoundsLoad
    \/ \E id \in TileIds(images) : HandleImageSelect(id) /\ WithinBoundsLoad
    \/ HandleCanvasClick /\ WithinBoundsLoad
    \/ \E id \in TileIds(images) : HandleImageDelete(id) /\ WithinBoundsLoad
    \/ \E l \in loads, success \in BOOLEAN : LoadDocumentResolve(l, success)
    \/ \E l \in loads, loaded \in BOOLEAN : LoadPreloadResolve(l, loaded)
    \/ \E cid \in DOMAIN calls, outcome \in {"ok", "fail", "cancelled"} :
          ServiceResolve(cid, outcome)
    \/ \E cid \in DOMAIN calls, loaded \in BOOLEAN : PreloadResolve(cid, loaded)

SpecLoad == InitLoad /\ [][NextLoad]_vars

(* SpecSave: the file menu.  Tiles are created and the canvas is cleared, *)
(* the document is saved, saved as a new copy and its share URL copied,   *)
(* while requests, clipboard writes and status timers are under way.      *)
WithinBoundsSave ==
    /\ Within(MaxTilesSave, MaxCallsSave)
    /\ Cardinality(saves') <= MaxSaves
    /\ documentState'.copying <= MaxCopies
    /\ documentState'.timers <= MaxTimers

NextSave ==
    \/ HandlePromptChange(<<"a">>) /\ WithinBoundsSave
    \/ DebounceFire /\ WithinBoundsSave
    \/ ClearCanvas
    \/ \E forceNew \in BOOLEAN : SaveDocument(forceNew) /\ WithinBoundsSave
    \/ \E r \in saves, success \in BOOLEAN :
          SaveResolve(r, success) /\ WithinBoundsSave
    \/ CopyShareUrl /\ WithinBoundsSave
    \/ \E written \in BOOLEAN : CopyResolve(written) /\ WithinBoundsSave
    \/ StatusTimeout
    \/ \E cid \in DOMAIN calls, outcome \in {"ok", "fail", "cancelled"} :
          ServiceResolve(cid, outcome)
    \/ \E cid \in DOMAIN calls, loaded \in BOOLEAN : PreloadResolve(cid, loaded)

SpecSave == Init /\ [][NextSave]_vars

(* SpecEdit: prompt edits typed while one tile, EditedTile, is selected,   *)
(* on a canvas of two ready tiles.  Between an edit and the fire of the    *)
(* gate the selection moves, is dropped, or the tile is deleted; the       *)
(* generations issued settle.                                              *)
EditedTile == 1

InitEdit ==
    /\ images = [i \in 1..2 |->
                    [id |-> i, src |-> UrlOf(0), prompt |-> <<"a">>,
                     selected |-> i = EditedTile, displayState |-> "ready",
                     zIndex |-> IF i = EditedTile THEN 2 ELSE 1]]
    /\ nextId = 3
    /\ selectedImageId = EditedTile
    /\ currentPrompt = <<"a">>
    /\ error = NoError
    /\ activeRequests = << >>
    /\ calls = << >>
    /\ expansions = {}
    /\ loads = {}
    /\ saves = {}
    /\ documentState = NoDocument
    /\ nextCid = 1
    /\ debounced = <<>>
    /\ elapsed = NoTime
    /\ lastIssued = << >>

WithinBoundsEdit == Within(MaxTilesEdit, MaxCallsEdit)

NextEdit ==
    \/ \E p \in Prompts :
          selectedImageId = EditedTile /\ HandlePromptChange(p) /\ WithinBoundsEdit
    \/ DebounceFire /\ WithinBoundsEdit
    \/ \E id \in TileIds(images) : HandleImageSelect(id) /\ WithinBoundsEdit
    \/ HandleCanvasClick /\ WithinBoundsEdit
    \/ \E id \in TileIds(images) : HandleImageDelete(id) /\ WithinBoundsEdit
    \/ \E cid \in DOMAIN calls, outcome \in {"ok", "fail", "cancelled"} :
          ServiceResolve(cid, outcome)
    \/ \E cid \in DOMAIN calls, loaded \in BOOLEAN : PreloadResolve(cid, loaded)

SpecEdit == InitEdit /\ [][NextEdit]_vars

(* SpecExpandLive: one expansion of the only tile of the canvas, with the  *)
(* user acting on its first placeholder while it runs: the placeholder is  *)
(* selected, its prompt is edited so that its generation is superseded or  *)
(* supersedes, and it is deleted.  The variation service and every         *)
(* generation and preload that is awaited answer in the end.               *)
InitExpandLive ==
    /\ images = << [id |-> 1, src |-> UrlOf(0), prompt |-> <<"a">>,
                    selected |-> FALSE, displayState |-> "ready",
                    zIndex |-> 1] >>
    /\ nextId = 2
    /\ selectedImageId = NoId
    /\ currentPrompt = <<>>
    /\ error = NoError
    /\ activeRequests = << >>
    /\ calls = << >>
    /\ expansions = {}
    /\ loads = {}
    /\ saves = {}
    /\ documentState = NoDocument
    /\ nextCid = 1
    /\ debounced = <<>>
    /\ elapsed = NoTime
    /\ lastIssued = << >>

WithinBoundsExpandLive ==
    /\ nextId' <= MaxTilesExpandLive + 1
    /\ nextCid' <= MaxCallsExpandLive + 1

\* Answers of the variations service: a short list and a full one.
AnswersExpandLive == {2, 4}

VariationsAnswer ==
    \E e \in expansions :
        \/ VariationsFail(e)
        \/ \E n \in AnswersExpandLive :
              CanAnswer(e) /\ VariationsSucceed(e, n) /\ WithinBoundsExpandLive

NextExpandLive ==
    \/ HandleImageExpand(1) /\ WithinBoundsExpandLive
    \/ VariationsAnswer
    \/ \E e \in expansions : HandleImageDelete(e.placeholders)
    \/ \E e \in expansions : HandleImageSelect(e.placeholders)
    \/ expansions # {} /\ selectedImageId # NoId /\ HandlePromptChange(<<"a">>)
    \/ expansions # {} /\ selectedImageId # NoId /\ DebounceFire
                        /\ WithinBoundsExpandLive
    \/ \E cid \in DOMAIN calls, outcome \in {"ok", "fail", "cancelled"} :
          ServiceResolve(cid, outcome)
    \/ \E cid \in DOMAIN calls, loaded \in BOOLEAN : PreloadResolve(cid, loaded)

\* Every awaited service answers: the variations, each generation call and
\* each preload.
ServicesRespond ==
    /\ WF_vars(VariationsAnswer)
    /\ \A cid \in 1..MaxCallsExpandLive :
          /\ WF_vars(\E outcome \in {"ok", "fail", "cancelled"} :
                        ServiceResolve(cid, outcome))
          /\ WF_vars(\E loaded \in BOOLEAN : PreloadResolve(cid, loaded))

SpecExpandLive == InitExpandLive /\ [][NextExpandLive]_vars /\ ServicesRespond

(* SpecClear: the canvas is cleared while an expansion and the generations *)
(* of its placeholders are under way.  No tile is deleted one by one, so   *)
(* the canvas is empty only after a clear.                                  *)
WithinBoundsClear ==
    /\ nextId' <= MaxTilesClear + 1
    /\ nextCid' <= MaxCallsClear + 1

NextClear ==
    \/ \E id \in TileIds(images) : HandleImageExpand(id) /\ WithinBoundsClear
    \/ \E e \in expansions : VariationsFail(e)
    \/ \E e \in expansions, n \in VariationCounts :
          CanAnswer(e) /\ VariationsSucceed(e, n) /\ WithinBoundsClear
    \/ ClearCanvas
    \/ \E cid \in DOMAIN calls, outcome \in {"ok", "fail", "cancelled"} :
          ServiceResolve(cid, outcome)
    \/ \E cid \in DOMAIN calls, loaded \in BOOLEAN : PreloadResolve(cid, loaded)

SpecClear == InitExpand /\ [][NextClear]_vars

(* SpecRoundTrip: a canvas in use is saved and the stored document is      *)
(* opened again.                                                            *)
\* Place and size of a tile: where createNewTile puts it at the standard
\* size, and a tile of the small size after it was dragged.
Rects ==
    { [x |-> 50, y |-> 50, width |-> 256, height |-> 256],
      [x |-> -20, y |-> 130, width |-> 128, height |-> 128] }

\* What a tile shows: waiting for its first image, showing an image, or
\* failed before any image arrived.
Shown ==
    { [src |-> "", displayState |-> "loading"],
      [src |-> UrlOf(0), displayState |-> "ready"],
      [src |-> "", displayState |-> "failed"] }

\* The canvases that are saved: tiles with distinct ids and distinct
\* positive stacking values, at most one of them selected.
CanvasesInUse(n, sel) ==
    { [i \in 1..n |->
          [id |-> i, src |-> s[i].src, x |-> r[i].x, y |-> r[i].y,
           width |-> r[i].width, height |-> r[i].height,
           prompt |-> <<"a">>, selected |-> (i = sel),
           displayState |-> s[i].displayState, zIndex |-> z[i]]] :
        r \in [1..n -> Rects], s \in [1..n -> Shown],
        z \in { f \in [1..n -> 1..n] : \A i, j \in 1..n : i # j => f[i] # f[j] } }

InitRoundTrip ==
    /\ \E n \in 1..MaxTilesRoundTrip :
          /\ selectedImageId \in {NoId} \cup 1..n
          /\ images \in CanvasesInUse(n, selectedImageId)
          /\ nextId = n + 1
    /\ currentPrompt = <<>>
    /\ error = NoError
    /\ activeRequests = << >>
    /\ calls = << >>
    /\ expansions = {}
    /\ loads = {}
    /\ saves = {}
    /\ documentState = NoDocument
    /\ nextCid = 1
    /\ debounced = <<>>
    /\ elapsed = NoTime
    /\ lastIssued = << >>

\* useDocumentOperations.saveDocument stores the canvas as a new document
\* and loadDocument asks the service for the document just stored.
SaveAndOpen ==
    /\ images # << >>
    /\ loads = {}
    /\ saves = {}
    /\ documentState = NoDocument
    /\ error' = NoError
    /\ loads' = { [phase |-> "service", doc |-> SaveDocumentSerialized(images),
                   index |-> 0] }
    /\ UNCHANGED <<images, selectedImageId, currentPrompt, activeRequests, calls,
                   expansions, saves, documentState, elapsed, nextId, nextCid,
                   debounced, lastIssued>>

\* The same with a canvas that was saved before: the document is updated.
UpdateAndOpen ==
    /\ images # << >>
    /\ loads = {}
    /\ saves = {}
    /\ documentState = NoDocument
    /\ error' = NoError
    /\ loads' = { [phase |-> "service", doc |-> UpdateDocumentSerialized(images),
                   index |-> 0] }
    /\ UNCHANGED <<images, selectedImageId, currentPrompt, activeRequests, calls,
                   expansions, saves, documentState, elapsed, nextId, nextCid,
                   debounced, lastIssued>>

NextRoundTrip ==
    \/ SaveAndOpen
    \/ UpdateAndOpen
    \/ \E l \in loads, success \in BOOLEAN : LoadDocumentResolve(l, success)
    \/ \E l \in loads, loaded \in BOOLEAN : LoadPreloadResolve(l, loaded)

SpecRoundTrip == InitRoundTrip /\ [][NextRoundTrip]_vars

----------------------------------------------------------------------------
(* Vocabulary of the properties *)

\* A continuation of call cid runs in this step.
Continues(cid) ==
    /\ cid \in DOMAIN calls
    /\ cid \notin DOMAIN calls' \/ calls'[cid].phase # calls[cid].phase

\* A later generate has been issued for the tile of call cid.
Superseded(cid) == lastIssued[calls[cid].tileId] # cid

\* Service calls issued for tileId that are neither aborted nor resolved.
LiveRequests(tileId) ==
    { c \in DOMAIN calls : /\ calls[c].tileId = tileId
                           /\ calls[c].phase = "service"
                           /\ ~calls[c].aborted }

----------------------------------------------------------------------------
(* Properties *)

\* C1: last generate wins.  Once a later call has been issued for a tile, no
\* continuation of an earlier call changes the tile collection; and when no
\* call is in flight, a ready tile shows the URL of the last call issued
\* for it.
LastGenerateWins ==
    [][ /\ \A c \in DOMAIN calls :
            Continues(c) /\ Superseded(c) => images' = images
        /\ calls' = << >> =>
            \A i \in DOMAIN images' :
                (images'[i].id \in DOMAIN lastIssued'
                 /\ images'[i].displayState = "ready")
                => images'[i].src = UrlOf(lastIssued'[images'[i].id]) ]_vars

\* C2: at most one live generation request per tile id.
AtMostOneLiveRequest ==
    \A t \in DOMAIN lastIssued : Cardinality(LiveRequests(t)) <= 1

\* C3: a cancelled generation (superseded by a later generate, or its tile
\* deleted, or the canvas cleared) changes no tile and does not set the
\* error channel when it later settles, in whatever phase it was.
Cancelled(cid) ==
    \/ calls[cid].aborted
    \/ Superseded(cid)
    \/ ~HasTile(images, calls[cid].tileId)

CancelledIsSilent ==
    [][ \A c \in DOMAIN calls :
           Continues(c) /\ Cancelled(c) => images' = images /\ error' = error ]_vars

\* C4: deleting a tile aborts its in-flight request and removes its token;
\* the tile id never comes back, and no later continuation of a call for a
\* tile that is no longer in the store changes the tile collection.
DeleteCancelsGeneration ==
    [][ /\ \A id \in TileIds(images) :
            HandleImageDelete(id) =>
                /\ LiveRequests(id)' = {}
                /\ id \notin DOMAIN activeRequests'
        /\ \A id \in 1..(nextId - 1) :
            id \notin TileIds(images) => id \notin TileIds(images')
        /\ \A c \in DOMAIN calls :
            Continues(c) /\ ~HasTile(images, calls[c].tileId)
                => images' = images ]_vars

PreloadCommit ==
    [][ \A c \in DOMAIN calls :
           (calls[c].phase = "preload" /\ ~Superseded(c))
           => /\ PreloadResolve(c, TRUE) =>
                   images' = [i \in DOMAIN images |->
                                IF images[i].id = calls[c].tileId
                                THEN [images[i] EXCEPT !.src = UrlOf(c),
                                                       !.displayState = "ready"]
                                ELSE images[i]]
              /\ PreloadResolve(c, FALSE) =>
                   images' = [i \in DOMAIN images |->
                                IF images[i].id = calls[c].tileId
                                THEN [images[i] EXCEPT !.displayState = "failed"]
                                ELSE images[i]] ]_vars

\* A regenerated tile whose last call failed to preload keeps the URL of the
\* earlier call.
PreloadCommitReached ==
    \E i \in DOMAIN images :
        /\ images[i].id \in DOMAIN lastIssued
        /\ images[i].displayState = "failed"
        /\ images[i].src # ""
        /\ images[i].src # UrlOf(lastIssued[images[i].id])
        /\ calls = << >>

\* C7: when the service call fails for a reason other than cancellation the
\* tile becomes failed, the message is on the error channel, and the
\* continuation issues no further service call.
ServiceFailure ==
    [][ \A c \in DOMAIN calls :
           ServiceResolve(c, "fail")
           => /\ error' = ServiceError
              /\ \A i \in DOMAIN images' :
                    images'[i].id = calls[c].tileId
                    => images'[i].displayState = "failed"
              /\ TileIds(images') = TileIds(images)
              /\ DOMAIN calls' = DOMAIN calls \ {c}
              /\ nextCid' = nextCid ]_vars

ServiceFailureReached ==
    /\ error = ServiceError
    /\ calls = << >>
    /\ \E i \in DOMAIN images : images[i].displayState = "failed"

\* C8: generateImageForTile with a prompt that is empty after trimming sets
\* the error channel and does nothing else: no call is issued, no active
\* request is aborted or replaced, no tile changes.
IsBlank(p) == Trim(p) = <<>>

EmptyPromptRejected ==
    [][ /\ \A t \in TileIds(images) \cup DOMAIN activeRequests :
            \A p \in { q \in Prompts : IsBlank(q) } :
                GenerateImageForTile(Coord, t, p)
                    = [Coord EXCEPT !.error = EmptyPromptError]
        /\ (DebounceFire /\ IsBlank(debounced[1]))
            => /\ error' = EmptyPromptError
               /\ nextCid' = nextCid
               /\ DOMAIN calls' = DOMAIN calls
               /\ selectedImageId = NoId =>
                     /\ calls' = calls
                     /\ activeRequests' = activeRequests
                     /\ SubSeq(images', 1, Len(images)) = SelectImage(images, NoId)
       ]_vars

\* A blank prompt was fired while another tile's request was active.
EmptyPromptRejectedReached ==
    /\ error = EmptyPromptError
    /\ \E i \in DOMAIN images : /\ IsBlank(images[i].prompt)
                                 /\ images[i].displayState = "loading"
    /\ \E t \in DOMAIN activeRequests :
          /\ ~calls[activeRequests[t]].aborted
          /\ HasTile(images, t)

\* C9: all stacking values are pairwise distinct and lie in 1..MAX_Z_INDEX.
ZIndexDistinctInRange ==
    /\ \A i \in DOMAIN images : images[i].zIndex \in 1..MAX_Z_INDEX
    /\ \A i, j \in DOMAIN images : i # j => images[i].zIndex # images[j].zIndex

\* C10: under bringToFront on a fixed set of tiles no stacking value exceeds
\* MAX_Z_INDEX, and a renormalization keeps the relative order of the tiles
\* (the selected tile aside, which goes on top).
Renormalizes(id) ==
    /\ HandleImageSelect(id)
    /\ MaxZ(images) >= MAX_Z_INDEX
    /\ TileOf(images, id).zIndex # MaxZ(images)

ZIndexCompaction ==
    [][ /\ \A i \in DOMAIN images' : images'[i].zIndex \in 1..MAX_Z_INDEX
        /\ \A id \in TileIds(images) :
            Renormalizes(id) =>
              /\ \A i, j \in DOMAIN images :
                    (images[i].id # id /\ images[j].id # id)
                    => (images[i].zIndex < images[j].zIndex
                        <=> images'[i].zIndex < images'[j].zIndex)
              /\ \A i \in DOMAIN images' :
                    images'[i].id # id
                    => images'[i].zIndex < TileOf(images', id).zIndex ]_vars

\* A renormalization has just happened: the selected tile is on top at N + 1.
ZIndexCompactionReached ==
    /\ selectedImageId # NoId
    /\ TileOf(images, selectedImageId).zIndex = Len(images) + 1
    /\ \A i \in DOMAIN images : images[i].zIndex <= Len(images) + 1

\* C11: bringToFront on a tile that is not on top.  Below the ceiling the
\* tile gets maxZ + 1 and the zIndex of no other tile changes; at the ceiling
\* every other tile gets its position in the ascending order of the old
\* zIndex (ties by insertion order) and the tile gets N + 1.  Either way the
\* tile ends strictly above every other tile, and the selection flag aside no
\* other field of any tile changes.
BringsToFront(id) ==
    /\ HandleImageSelect(id)
    /\ TileOf(images, id).zIndex # MaxZ(images)

OldPosition(i) ==
    1 + Cardinality({ j \in DOMAIN images :
                        \/ images[j].zIndex < images[i].zIndex
                        \/ images[j].zIndex = images[i].zIndex /\ j < i })

BringToFront ==
    [][ \A id \in TileIds(images) :
          BringsToFront(id) =>
            /\ DOMAIN images' = DOMAIN images
            /\ \A i \in DOMAIN images :
                  /\ [images'[i] EXCEPT !.zIndex = 0, !.selected = FALSE]
                        = [images[i] EXCEPT !.zIndex = 0, !.selected = FALSE]
                  /\ images'[i].zIndex =
                        IF MaxZ(images) < MAX_Z_INDEX
                        THEN IF images[i].id = id
                             THEN MaxZ(images) + 1 ELSE images[i].zIndex
                        ELSE IF images[i].id = id
                             THEN Len(images) + 1 ELSE OldPosition(i)
                  /\ images'[i].id # id
                        => images'[i].zIndex < TileOf(images', id).zIndex ]_vars

\* A tile was raised below the ceiling: it is on top, one above the tile that
\* was on top before, and higher than a renormalization would put it.
BringToFrontReached ==
    /\ selectedImageId # NoId
    /\ TileOf(images, selectedImageId).zIndex = MaxZ(images)
    /\ MaxZ(images) > Len(images) + 1
    /\ \E i \in DOMAIN images : images[i].zIndex = MaxZ(images) - 1

\* C12: bringToFront on the tile that already has the maximum zIndex
\* (maxZ > 0) changes the zIndex of no tile, each time it is repeated, also
\* when maxZ >= MAX_Z_INDEX: no renormalization happens.
AlreadyOnTop(id) ==
    /\ TileOf(images, id).zIndex = MaxZ(images)
    /\ MaxZ(images) > 0

FrontBringIdempotent ==
    [][ \A id \in TileIds(images) :
          (HandleImageSelect(id) /\ AlreadyOnTop(id))
          => /\ DOMAIN images' = DOMAIN images
             /\ \A i \in DOMAIN images : images'[i].zIndex = images[i].zIndex
             /\ \A id2 \in TileIds(images') :
                   (id2 = id) = (TileOf(images', id2).zIndex = MaxZ(images')) ]_vars

\* The selected tile is on top at the ceiling and the other tiles have kept
\* stacking values that a renormalization would have replaced.
FrontBringIdempotentReached ==
    /\ selectedImageId # NoId
    /\ AlreadyOnTop(selectedImageId)
    /\ MaxZ(images) >= MAX_Z_INDEX
    /\ \E i \in DOMAIN images :
          /\ images[i].id # selectedImageId
          /\ images[i].zIndex > Len(images) + 1

\* C13: at most one tile has selected = TRUE, in every state reached by
\* creating tiles, selecting, deselecting, deleting, duplicating, expanding
\* (with the removal of the placeholders when the variations fail),
\* clearing the canvas and loading a document.
SelectedTiles == { i \in DOMAIN images : images[i].selected }

AtMostOneSelected == Cardinality(SelectedTiles) <= 1

\* The tile created last is the selected one, on a canvas that also holds
\* a tile loaded from the document and a copy of a tile.
AtMostOneSelectedReached ==
    /\ Cardinality(SelectedTiles) = 1
    /\ Len(images) >= 3
    /\ \E i \in DOMAIN images : images[i].id = DocId(1)
    /\ \E i \in SelectedTiles :
          /\ images[i].id = selectedImageId
          /\ images[i].id \in DOMAIN activeRequests

\* C14: selectImage(id) sets selectedImageId to id, selected to TRUE on the
\* tile of that id and to FALSE on every other tile, and changes no other
\* field of any tile; selectImage(null) sets selectedImageId to null and
\* selected to FALSE on all tiles.
SelectSetsExactlyOne ==
    [][ \A id \in StoreIds \cup {NoId} :
          selectImage(id)
          => /\ selectedImageId' = id
             /\ DOMAIN images' = DOMAIN images
             /\ \A i \in DOMAIN images :
                   /\ images'[i].selected = (id # NoId /\ images[i].id = id)
                   /\ [images'[i] EXCEPT !.selected = FALSE]
                        = [images[i] EXCEPT !.selected = FALSE] ]_vars

\* One tile is selected next to an unselected tile whose other fields had
\* been updated.
SelectSetsExactlyOneReached ==
    \E i, j \in DOMAIN images :
        /\ images[i].selected
        /\ selectedImageId = images[i].id
        /\ ~images[j].selected
        /\ images[j].displayState = "updating"

\* C15 (as claimed): deleteImage(id) removes exactly the tile of that id and
\* keeps the other tiles and their order; selectedImageId becomes null and
\* currentPrompt empty if that tile was the selected one and both are
\* unchanged otherwise; for an id that is not in the store nothing changes.
RemovesExactly(id) ==
    /\ images' = SelectSeq(images, LAMBDA img : img.id # id)
    /\ Len(images') = Len(images) - (IF HasTile(images, id) THEN 1 ELSE 0)

DeleteChangesNothingElse ==
    [][ \A id \in StoreIds :
          deleteImage(id)
          => /\ RemovesExactly(id)
             /\ IF HasTile(images, id) /\ selectedImageId = id
                THEN selectedImageId' = NoId /\ currentPrompt' = <<>>
                ELSE UNCHANGED <<selectedImageId, currentPrompt>>
             /\ ~HasTile(images, id) => UNCHANGED vars ]_vars

\* C15 (amended): deleteImage(id) removes exactly the tile of that id and
\* keeps the other tiles and their order, and for an id that is not in the
\* store the tile collection is unchanged; selectedImageId becomes null and
\* currentPrompt empty if id is the selected id, whether or not a tile of
\* that id is in the store, and both are unchanged otherwise.
DeleteClearsSelectedId ==
    [][ \A id \in StoreIds :
          deleteImage(id)
          => /\ RemovesExactly(id)
             /\ ~HasTile(images, id) => images' = images
             /\ IF selectedImageId = id
                THEN selectedImageId' = NoId /\ currentPrompt' = <<>>
                ELSE UNCHANGED <<selectedImageId, currentPrompt>>
             /\ UNCHANGED <<error, nextId>> ]_vars

\* A tile has been deleted while another tile was selected and a prompt was
\* in the input: selection and prompt are still there.
DeleteClearsSelectedIdReached ==
    /\ \E id \in 1..(nextId - 1) : ~HasTile(images, id)
    /\ selectedImageId # NoId
    /\ HasTile(images, selectedImageId)
    /\ TileOf(images, selectedImageId).selected
    /\ currentPrompt # <<>>

\* C16: updateImage(id, fields) for an id that is not in the store changes
\* nothing and sets no error; for an id in the store it changes the named
\* fields of that tile only: every other tile, the order of the collection
\* and the selection stay as they were.
UpdateChangesNamedFields ==
    [][ \A id \in StoreIds : \A updates \in StoreUpdates :
          updateImage(id, updates)
          => /\ ~HasTile(images, id) => UNCHANGED vars
             /\ DOMAIN images' = DOMAIN images
             /\ \A i \in DOMAIN images :
                   images'[i] =
                     IF images[i].id = id
                     THEN [k \in DOMAIN images[i] |->
                             IF k \in DOMAIN updates
                             THEN updates[k] ELSE images[i][k]]
                     ELSE images[i]
             /\ UNCHANGED <<selectedImageId, currentPrompt, error>> ]_vars

\* One tile carries updated fields, the other tile has the fields it was
\* added with, and an id that is no longer in the store exists.
UpdateChangesNamedFieldsReached ==
    /\ \E i, j \in DOMAIN images :
          /\ images[i].prompt = <<"b">>
          /\ images[i].displayState = "updating"
          /\ images[j] = NewTile(images[j].id)
    /\ \E id \in 1..(nextId - 1) : ~HasTile(images, id)

\* C17: handleImageExpand on an id without a tile, or on a tile whose prompt
\* is empty or absent, changes nothing: no tile is added, no zIndex changes,
\* no variations or generation call is made, the error channel is as before.
CannotExpand(id) ==
    ~HasTile(images, id) \/ TileOf(images, id).prompt = <<>>

ExpandWithoutPromptIsNoOp ==
    [][ \A id \in 1..nextId :
          (HandleImageExpand(id) /\ CannotExpand(id)) => UNCHANGED vars ]_vars

\* A tile without a prompt is still what it was at the start, no expansion
\* is pending, while an expansion of the other tile has come and gone.
ExpandWithoutPromptIsNoOpReached ==
    /\ \E i \in DOMAIN images :
          /\ images[i].prompt = <<>>
          /\ images[i].displayState = "ready"
          /\ images[i].zIndex <= 2
    /\ expansions = {}
    /\ nextId > 3

\* C18: the step that starts an expansion of a tile with a prompt adds
\* exactly four tiles, each loading, without src and not selected, whose
\* zIndex values are the four integers following the previous maximum, in
\* order; the source tile ends above all four, and no other tile changes.
StartsExpansion(id) ==
    /\ HandleImageExpand(id)
    /\ ~CannotExpand(id)

PlaceholdersBelowSource ==
    [][ \A id \in 1..nextId :
          StartsExpansion(id) =>
            LET n == Len(images) IN
            /\ Len(images') = n + 4
            /\ \A i \in 1..n :
                  images'[i] = IF images[i].id = id
                               THEN [images[i] EXCEPT !.zIndex = images'[i].zIndex]
                               ELSE images[i]
            /\ \A k \in 1..4 :
                  /\ images'[n + k].id \notin TileIds(images)
                  /\ images'[n + k].displayState = "loading"
                  /\ images'[n + k].src = ""
                  /\ ~images'[n + k].selected
                  /\ images'[n + k].zIndex = MaxZ(images) + k
                  /\ images'[n + k].zIndex < TileOf(images', id).zIndex
            /\ Cardinality({ images'[n + k].id : k \in 1..4 }) = 4 ]_vars

\* The variations of an expansion are awaited and its four placeholders are
\* in the store.
PlaceholdersBelowSourceReached ==
    \E e \in expansions :
        /\ e.phase = "variations"
        /\ \A id \in PlaceholderIds(e) :
              /\ HasTile(images, id)
              /\ TileOf(images, id).displayState = "loading"
              /\ HasTile(images, e.source)
              /\ TileOf(images, id).zIndex < TileOf(images, e.source).zIndex

\* C19: when the variations call of an expansion fails, the four
\* placeholders are removed and no other tile changes, the error channel is
\* written once, and no generation call is issued for a placeholder, in
\* that step or before it; the expansion takes no further step.
VariationsFailureRemovesPlaceholders ==
    [][ \A e \in expansions :
          VariationsFail(e)
          => /\ TileIds(images') = TileIds(images) \ PlaceholderIds(e)
             /\ images' = SelectSeq(images,
                                    LAMBDA img : img.id \notin PlaceholderIds(e))
             /\ error' = VariationsError
             /\ UNCHANGED <<calls, activeRequests, nextCid, lastIssued>>
             /\ PlaceholderIds(e) \cap DOMAIN lastIssued = {}
             /\ e \notin expansions' ]_vars

\* After a failed expansion: the error is shown, the placeholders are gone
\* and no generation call was ever issued.
VariationsFailureRemovesPlaceholdersReached ==
    /\ error = VariationsError
    /\ expansions = {}
    /\ nextId = 7
    /\ TileIds(images) \cap 3..6 = {}
    /\ Len(images) = 2
    /\ lastIssued = << >>

\* C20: when the variations call of an expansion answers with fewer than
\* four variations, the four placeholders are removed, one error is
\* surfaced, and no generation is started for any of them.
ShortAnswerRemovesPlaceholders ==
    [][ \A e \in expansions : \A n \in 0..3 :
          VariationsSucceed(e, n)
          => /\ TileIds(images') = TileIds(images) \ PlaceholderIds(e)
             /\ error' # NoError
             /\ UNCHANGED <<calls, nextCid>> ]_vars

\* C21: the step that receives four variations starts the four generations
\* at once, one unaborted service call per placeholder; the expansion goes
\* on to its failure report only when none of its calls is still awaited;
\* and the settlement of one of its calls, failed or not, leaves every other
\* call and every other tile as they were, so that a sibling whose preload
\* then succeeds commits its URL as ready, whatever settled before it.
ReturnsFromFanOut(e) ==
    /\ e \in expansions
    /\ e.phase = "generating"
    /\ e \notin expansions'

FanOutIsIndependent ==
    [][ \A e \in expansions :
          /\ VariationsSucceed(e, 4) =>
                /\ nextCid' = nextCid + 4
                /\ \A id \in PlaceholderIds(e) :
                      /\ id \in DOMAIN activeRequests'
                      /\ activeRequests'[id] \in nextCid..(nextCid + 3)
                      /\ calls'[activeRequests'[id]] =
                            [tileId |-> id, phase |-> "service", aborted |-> FALSE]
                /\ \E f \in expansions' :
                      /\ f.placeholders = e.placeholders
                      /\ f.phase = "generating"
                      /\ f.cids = nextCid..(nextCid + 3)
          /\ ReturnsFromFanOut(e) => e.cids \cap DOMAIN calls' = {}
          /\ \A c \in e.cids \cap DOMAIN calls :
                Continues(c) =>
                   /\ \A c2 \in DOMAIN calls \ {c} :
                         c2 \in DOMAIN calls' /\ calls'[c2] = calls[c2]
                   /\ \A t \in DOMAIN activeRequests \ {calls[c].tileId} :
                         /\ t \in DOMAIN activeRequests'
                         /\ activeRequests'[t] = activeRequests[t]
                   /\ \A i \in DOMAIN images :
                         images[i].id # calls[c].tileId => images'[i] = images[i]
                   /\ (PreloadResolve(c, TRUE) /\ HasTile(images, calls[c].tileId))
                      => /\ TileOf(images', calls[c].tileId).displayState = "ready"
                         /\ TileOf(images', calls[c].tileId).src = UrlOf(c) ]_vars

\* The generation of the first placeholder has failed and those of the other
\* three, still awaited at that moment, have since committed.
FanOutIsIndependentReached ==
    /\ calls = << >>
    /\ nextCid = 5
    /\ HasTile(images, 3)
    /\ TileOf(images, 3).displayState = "failed"
    /\ \A id \in 4..6 :
          /\ HasTile(images, id)
          /\ TileOf(images, id).displayState = "ready"
          /\ TileOf(images, id).src = UrlOf(lastIssued[id])

\* C22: when the four generations of an expansion have all settled, with N
\* the number of its placeholders that are failed in the store: if N > 0 the
\* error channel holds "Failed to generate N of 4 variations" and the
\* placeholders that are ready keep their src and their variation prompt;
\* if N = 0 the step leaves the error channel as it was.
FailedPlaceholders(imgs, e) ==
    { id \in PlaceholderIds(e) :
        HasTile(imgs, id) /\ TileOf(imgs, id).displayState = "failed" }

AggregateFailureReport ==
    [][ \A e \in expansions :
          (ReturnsFromFanOut(e) /\ Cardinality(e.cids) = 4) =>
             LET N == Cardinality(FailedPlaceholders(images', e))
             IN IF N > 0
                THEN /\ error' = FailedVariationsError(N)
                     /\ \A id \in PlaceholderIds(e) :
                           (HasTile(images', id)
                            /\ TileOf(images', id).displayState = "ready")
                           => /\ TileOf(images', id).src # ""
                              /\ TileOf(images', id).prompt =
                                    VariationPrompt(e, 4, id - e.placeholders + 1)
                ELSE error' = error ]_vars

\* C23: no dropped final value.  Once v has been typed as the first edit on
\* a fresh canvas, and whenever v is the value waiting in the gate, the gate
\* eventually fires with v, which creates a tile with prompt v or gives
\* prompt v to the selected tile, unless a further edit or a clear of the
\* canvas comes first: without them the input never ends in zero fires.
TypedFirst(v) == nextId = 1 /\ currentPrompt = v

FiredWith(v) ==
    /\ debounced = <<>>
    /\ \E i \in DOMAIN images : images[i].prompt = v

CancelledByClear ==
    /\ debounced = <<>>
    /\ images = << >>
    /\ currentPrompt = <<>>

EditedAfter(v) == debounced # <<>> /\ debounced[1] # v

ElapsedMs(ticks) == (ticks * DEBOUNCE_DELAY) \div TicksPerDelay

BoundedTriggerLatency ==
    debounced # <<>> =>
        /\ ElapsedMs(elapsed.last) <= DEBOUNCE_DELAY
        /\ ElapsedMs(elapsed.first) <= MAX_WAIT
        /\ (ElapsedMs(elapsed.last) = DEBOUNCE_DELAY
            \/ ElapsedMs(elapsed.first) = MAX_WAIT) => (Due /\ ~ENABLED Tick)

\* Edits less than a delay apart have gone on for the maximum wait: the
\* call is due although the last edit is younger than the delay.
BoundedTriggerLatencyReached ==
    /\ debounced # <<>>
    /\ ElapsedMs(elapsed.first) = MAX_WAIT
    /\ ElapsedMs(elapsed.last) < DEBOUNCE_DELAY
    /\ Due

\* C25: every fire passes the most recent edit.  An edit replaces the value
\* waiting in the gate; nothing but an edit, a fire or a cancel changes what
\* waits; a fire hands the waiting value to createNewTile (no selection) or
\* updateSelectedTile and empties the gate, so that no value is fired twice
\* and values are fired in the order of their edits; and the prompt of a
\* tile is written by nothing but a fire.
IsEdit == \E p \in Prompts : HandlePromptChange(p)

IsFire == Due /\ DebounceFire

FiresLatestEdit ==
    [][ /\ \A p \in Prompts :
              HandlePromptChange(p) => debounced' = <<p>>
        /\ debounced' # debounced => (IsEdit \/ IsFire \/ ClearCanvas)
        /\ IsFire =>
              /\ debounced' = <<>>
              /\ IF selectedImageId = NoId
                 THEN /\ Len(images') = Len(images) + 1
                      /\ images'[Len(images')].prompt = debounced[1]
                      /\ \A i \in DOMAIN images :
                            images'[i].prompt = images[i].prompt
                 ELSE \A i \in DOMAIN images :
                         images'[i].prompt = IF images[i].id = selectedImageId
                                             THEN debounced[1]
                                             ELSE images[i].prompt
        /\ ~IsFire =>
              \A id \in TileIds(images') :
                  /\ HasTile(images, id)
                  /\ TileOf(images', id).prompt = TileOf(images, id).prompt
      ]_vars

\* Two values were fired in the order they were typed: the blank one
\* created the tile and left its error, the next one is the prompt the tile
\* is being regenerated with.
FiresLatestEditReached ==
    /\ debounced = <<>>
    /\ error = EmptyPromptError
    /\ HasTile(images, 1)
    /\ TileOf(images, 1).prompt = <<"a">>
    /\ TileOf(images, 1).displayState = "updating"
    /\ lastIssued = Put(<< >>, 1, 1)

\* C26: a clear of the canvas while a call waits in the gate cancels it: the
\* gate is left empty, and from then on, as whenever the gate is empty, the
\* callback cannot fire, and until an edit arrives no tile is created and
\* no generation call is issued.
CancelSuppressesFire ==
    [][ /\ (ClearCanvas /\ debounced # <<>>) =>
              /\ debounced' = <<>>
              /\ images' = << >>
              /\ nextId' = nextId
              /\ nextCid' = nextCid
        /\ debounced = <<>> =>
              /\ ~ENABLED IsFire
              /\ ~ENABLED Tick
              /\ ~IsEdit => /\ debounced' = <<>>
                            /\ nextId' = nextId
                            /\ nextCid' = nextCid
      ]_vars

\* The canvas was cleared while a call had been waiting for some time: the
\* clocks stand where the cancel stopped them, nothing waits, and no tile
\* has come from the edit.
CancelSuppressesFireReached ==
    /\ debounced = <<>>
    /\ elapsed.first > 0
    /\ images = << >>
    /\ nextId = 2
    /\ lastIssued # << >>

----------------------------------------------------------------------------
\* The fields that a stored document gives back as they were.
RoundTripOf(before, after) ==
    /\ Len(after) = Len(before)
    /\ \A i \in DOMAIN before :
          /\ after[i].id = before[i].id
          /\ after[i].x = before[i].x
          /\ after[i].y = before[i].y
          /\ after[i].width = before[i].width
          /\ after[i].height = before[i].height
          /\ after[i].prompt = before[i].prompt
          /\ after[i].zIndex = before[i].zIndex
          /\ after[i].displayState = "loading"
          /\ after[i].selected = FALSE

\* C27: a tile collection serialized as saveDocument / updateDocument do and
\* then put through deserializeImages comes back with the same id, x, y,
\* width, height, prompt and zIndex on every tile, in the same order, every
\* tile in the state loading and none selected.
SerializeDeserializeRoundTrip ==
    /\ [][\A l \in loads :
            LoadDocumentResolve(l, TRUE) => RoundTripOf(images, images')]_vars
    /\ [](/\ RoundTripOf(images, DeserializeImages(SaveDocumentSerialized(images)))
          /\ RoundTripOf(images, DeserializeImages(UpdateDocumentSerialized(images))))

\* A canvas of two tiles, stacked against their order and one of them
\* placed elsewhere at another size, has come back from its stored document.
SerializeDeserializeRoundTripReached ==
    /\ Len(images) = 2
    /\ loads # {}
    /\ \A l \in loads : l.phase = "preload"
    /\ images[1].zIndex = 2
    /\ images[2].zIndex = 1
    /\ images[1].x # images[2].x
    /\ images[1].width # images[2].width
    /\ \A i \in DOMAIN images : images[i].displayState = "loading"

----------------------------------------------------------------------------
\* C28: cleanup (run by the clear of the canvas) aborts every generation
\* request that is awaiting the service at that moment and leaves the map of
\* controllers empty, so that none of them commits a result or an error
\* later.
CleanupAbortsEveryLiveRequest ==
    [][ClearCanvas =>
          /\ activeRequests' = << >>
          /\ \A cid \in DOMAIN calls :
                calls[cid].phase = "service" =>
                   /\ cid \in DOMAIN calls'
                   /\ calls'[cid].aborted]_vars

----------------------------------------------------------------------------
\* The preload of call cid fails in this step while its tile is on the canvas.
PreloadFails(cid) ==
    /\ cid \in DOMAIN calls
    /\ HasTile(images, calls[cid].tileId)
    /\ PreloadResolve(cid, FALSE)

\* C29 (as claimed): a failed preload ends like a failed generation, with the
\* tile in the state failed and a failure message on the error channel.
PreloadFailureSurfacesError ==
    [][\A cid \in DOMAIN calls :
          PreloadFails(cid) =>
             /\ TileOf(images', calls[cid].tileId).displayState = "failed"
             /\ error' # NoError]_vars

\* C29 (amended): a failed preload puts the tile in the state failed and
\* leaves its src as it was; the generation puts no message on the error
\* channel for it, which changes in that turn only by the report of an
\* expansion that returns with it.
PreloadFailureIsSilent ==
    [][\A cid \in DOMAIN calls :
          PreloadFails(cid) =>
             /\ TileOf(images', calls[cid].tileId).displayState = "failed"
             /\ TileOf(images', calls[cid].tileId).src =
                   TileOf(images, calls[cid].tileId).src
             /\ \/ error' = error
                \/ /\ Returning(expansions, calls') # {}
                   /\ \E k \in 1..4 : error' = FailedVariationsError(k)]_vars

\* A tile has failed after its only call and nothing is on the error
\* channel.
PreloadFailureIsSilentReached ==
    /\ \E i \in DOMAIN images : images[i].displayState = "failed"
    /\ calls = << >>
    /\ error = NoError
    /\ debounced = <<>>
    /\ nextCid = 2

----------------------------------------------------------------------------
\* The canvas as clearAll leaves it.
Cleared ==
    /\ images = << >>
    /\ selectedImageId = NoId
    /\ currentPrompt = <<>>
    /\ error = NoError

\* C30: the clear of the canvas leaves no tile, no selection, an empty prompt
\* and no error, and on the cleared canvas no continuation of work started
\* before the clear adds a tile, issues a generation call or sets the error.
ClearedStaysCleared ==
    /\ [][ClearCanvas => Cleared']_vars
    /\ [][Cleared /\ ~ClearCanvas => Cleared' /\ nextCid' = nextCid]_vars

----------------------------------------------------------------------------
\* The tiles of a stored document as a successful load puts them in place.
InsertedLoading(doc, imgs) ==
    /\ Len(imgs) = Len(doc)
    /\ \A i \in DOMAIN doc :
          /\ imgs[i].id = doc[i].id
          /\ imgs[i].displayState = "loading"
          /\ imgs[i].src = ""
          /\ imgs[i].selected = FALSE

\* The tile of a stored image is ready with the stored URL or failed.
SettledFromStore(imgs, stored) ==
    \/ /\ TileOf(imgs, stored.id).displayState = "ready"
       /\ TileOf(imgs, stored.id).src = stored.src
    \/ TileOf(imgs, stored.id).displayState = "failed"

\* loadDocument returns in this step: the last of its preloads settles.
LoadCompletes(l) ==
    /\ l \in loads
    /\ \E loaded \in BOOLEAN : LoadPreloadResolve(l, loaded)
    /\ ~\E m \in loads \ {l} : m.phase = "preload" /\ m.doc = l.doc

\* The parts of the claim that hold of each step of a load.
LoadSteps ==
    /\ \A l \in loads :
          LoadDocumentResolve(l, TRUE) => InsertedLoading(l.doc, images')
    /\ \A l \in loads :
          LoadDocumentResolve(l, FALSE) => images' = images /\ error' # NoError

\* C31 (as claimed): when loadDocument completes, every loaded tile that had
\* a stored src is ready with the stored URL or failed.
LoadedTilesSettledAtCompletion ==
    [][/\ LoadSteps
       /\ \A l \in loads :
             LoadCompletes(l) =>
                \A j \in DOMAIN l.doc :
                   (l.doc[j].src # "" /\ HasTile(images', l.doc[j].id))
                      => SettledFromStore(images', l.doc[j])]_vars

\* C31 (amended): a successful load replaces the canvas by the stored tiles,
\* each loading, without src and unselected; each tile with a stored src is
\* set to ready with the stored URL or to failed in the step in which its own
\* preload settles, if it is still on the canvas; a failed load leaves the
\* tiles as they are and sets the error.
LoadedTileSettlesWithItsPreload ==
    [][/\ LoadSteps
       /\ \A l \in loads, loaded \in BOOLEAN :
             (LoadPreloadResolve(l, loaded) /\ HasTile(images, l.doc[l.index].id))
                => /\ SettledFromStore(images', l.doc[l.index])
                   /\ loaded <=> TileOf(images', l.doc[l.index].id).displayState = "ready"
                   /\ \A i \in DOMAIN images :
                         images[i].id # l.doc[l.index].id => images'[i] = images[i]]_vars

\* A document of two stored images has been loaded; one image was loaded and
\* the other could not be.
LoadedTileSettlesWithItsPreloadReached ==
    /\ loads = {}
    /\ Len(images) = 2
    /\ images[1].id = DocId(1)
    /\ images[1].displayState = "ready"
    /\ images[1].src = "stored1"
    /\ images[2].displayState = "failed"
    /\ images[2].src = ""
    /\ documentState.lastSavedDocumentId = UrlDoc

----------------------------------------------------------------------------
\* C32: at most one save request is awaited at any time, whatever the order
\* of saveDocument, copyShareUrl, resetDocumentState and the status timer;
\* a saveDocument while a save is in progress issues no request, and a
\* saveDocument on an empty canvas sets the error and issues no request.
AtMostOneSaveInFlight ==
    /\ [](Cardinality(saves) <= 1)
    /\ [][\A forceNew \in BOOLEAN :
             (SaveDocument(forceNew) /\ (saves # {} \/ images = << >>))
                => saves' = saves]_vars
    /\ [][\A forceNew \in BOOLEAN :
             (SaveDocument(forceNew) /\ images = << >>)
                => error' = EmptyCanvasError]_vars

----------------------------------------------------------------------------
\* C33: a generation call that settles removes the controller of its tile
\* from the map only if that controller is its own; the controller of a newer
\* call for the same tile stays in the map.
SettlingKeepsNewerToken ==
    [][\A cid \in DOMAIN calls, outcome \in {"ok", "fail", "cancelled"} :
          (/\ ServiceResolve(cid, outcome)
           /\ calls[cid].tileId \in DOMAIN activeRequests
           /\ activeRequests[calls[cid].tileId] # cid)
             => /\ calls[cid].tileId \in DOMAIN activeRequests'
                /\ activeRequests'[calls[cid].tileId]
                      = activeRequests[calls[cid].tileId]]_vars

----------------------------------------------------------------------------
\* Work that will settle tile id: a generation call that was not aborted, in
\* its service call or its preload, or the variations call of the expansion
\* that made the tile.
WorkPendingFor(id) ==
    \/ \E cid \in DOMAIN calls : calls[cid].tileId = id /\ ~calls[cid].aborted
    \/ \E e \in expansions : e.phase = "variations" /\ id \in PlaceholderIds(e)

\* C34: no stuck tile.  Every tile that is loading or updating has a
\* generation call or a preload under way for it or, for a placeholder, a
\* variations call.
NoStuckTile ==
    \A i \in DOMAIN images :
       images[i].displayState \in {"loading", "updating"}
          => WorkPendingFor(images[i].id)

----------------------------------------------------------------------------
\* C35: selectedImageId is null or the id of a tile on the canvas, and that
\* tile is the only one with selected = TRUE.
SelectionNamesATile ==
    selectedImageId # NoId =>
       /\ HasTile(images, selectedImageId)
       /\ \A i \in DOMAIN images :
             images[i].selected <=> images[i].id = selectedImageId

----------------------------------------------------------------------------
\* C36: a tile whose displayState is 'ready' has a non-empty src, whether
\* the tile comes from a generation, from a document load or from
\* handleImageDuplicate of a tile in any displayState.
ReadyHasSrc ==
    \A i \in DOMAIN images :
        images[i].displayState = "ready" => images[i].src # ""

----------------------------------------------------------------------------
\* C37: a generation call is issued only for a tile that is in the store
\* when the call is made; in particular none is issued for a placeholder
\* that was deleted or cleared while the variations were awaited.
CallsIssuedForStoredTiles ==
    [][\A cid \in DOMAIN calls' \ DOMAIN calls :
           HasTile(images', calls'[cid].tileId)]_vars

----------------------------------------------------------------------------
\* C38: a prompt edit typed while a tile is selected is applied to that
\* tile only: when the gate fires after the selection has changed (another
\* tile selected, the canvas clicked, the tile deleted), the fire creates
\* no tile, rewrites no other tile and issues no call for another tile.
FireOfGate == debounced # <<>> /\ debounced' = <<>>

EditAppliedToItsTileOnly ==
    [][FireOfGate =>
          /\ TileIds(images') \subseteq TileIds(images)
          /\ \A id \in TileIds(images) \ {EditedTile} :
                TileOf(images', id) = TileOf(images, id)
          /\ \A cid \in DOMAIN calls' \ DOMAIN calls :
                calls'[cid].tileId = EditedTile]_vars

----------------------------------------------------------------------------
\* C39: when the variation service and every generation and preload answer
\* in the end, an expansion that is running ends, also when placeholders
\* are deleted or their generations superseded while it runs; every answer
\* is taken by a continuation that ends in store updates.
ExpandRunning(p) == \E e \in expansions : e.placeholders = p

ExpandTileSettles ==
    \A p \in 2..MaxTilesExpandLive : ExpandRunning(p) ~> ~ExpandRunning(p)

\* An expansion whose variations were two has ended: its first placeholder
\* got two more generations from prompt edits while the expansion ran, and
\* was deleted; its second placeholder is ready.
ExpandTileSettlesReached ==
    /\ expansions = {}
    /\ calls = << >>
    /\ nextId = 6
    /\ nextCid = 5
    /\ DOMAIN lastIssued = {2, 3}
    /\ ~HasTile(images, 2)
    /\ HasTile(images, 3)
    /\ TileOf(images, 3).displayState = "ready"

====
